---- MODULE Spec2Model ----
(***************************************************************************)
(* A model of the service-supervision and resource-arbitration engine of   *)
(* steamos-manager: the TDP arbiter (TdpManagerService, power.rs), the     *)
(* sysfs write coalescer (SysfsWriterQueue / SysfsWriterService, power.rs) *)
(* and the daemon supervisor (Daemon::run, daemon/mod.rs).                 *)
(*                                                                         *)
(* Each component has its own specification over the shared variable list; *)
(* the variables of the other components keep their initial values.        *)
(***************************************************************************)
EXTENDS Integers, Sequences, FiniteSets, TLC

(***************************************************************************)
(* Bounds of the model.                                                    *)
(***************************************************************************)
\* liveness watchers (tokens) ever spawned by the arbiter
MaxWatchers == 2
\* commands pending in the arbiter's (unbounded) channel
MaxChannel == 1
MaxQueue == 2
MaxUpdates == 3
\* calls of SysfsWriterQueue::send
MaxSends == 3
\* services registered with the daemon by add_service
MaxServices == 2
\* messages pending in the daemon's channel
MaxMessages == 1
\* calls of the SessionManager setters
MaxCalls == 2
\* calls of SysfsWriterService::init
MaxInits == 3

(***************************************************************************)
(* Program constants.                                                      *)
(***************************************************************************)
\* Option<NonZeroU32>::None, represented by the niche value 0
NoLimit == 0
\* RangeConfig { min: 3, max: 15 }
MinLimit == 3
MaxLimit == 15
\* download_mode_limit: NonZeroU32::new(6)
DownloadModeLimit == 6
\* AmdgpuHwmon register unit: micro-watts per watt
MicroWatts == 1000000

Identifiers == {"a", "b"}
\* limits a client asks for: the override itself and another one in range
RequestedLimits == {6, 12}
\* limit the hardware holds at start
InitialLimits == {15}
Methods == {"AmdgpuHwmon", "FirmwareAttribute"}
WatcherIds == 1..MaxWatchers

VARIABLES
    \* ---- TdpManagerService ----
    channel,             \* UnboundedReceiver<TdpManagerCommand>, FIFO
    download_handles,    \* HashMap<String, u32>
    previous_limit,      \* Option<NonZeroU32>
    download_mode_limit, \* Option<NonZeroU32>, from the device configuration
    wstate,              \* download_set: state of each watcher task
    wkey,                \* download_set: identifier each watcher returns
    capacity,            \* commands the channel, unbounded in the program, holds here
    senders,             \* some Sender of the arbiter's channel still exists
    running,             \* TdpManagerService::run has not returned
    \* ---- driver (TdpLimitManager) and platform ----
    method,              \* TdpLimitingMethod of the configuration
    profileMatches,      \* platform profile = configured performance_profile
    reg,                 \* power1_cap / ppt_pl1_spl current_value, raw unit
    \* ---- history of the arbiter (not program state) ----
    last,                \* what the arbiter's last step did
    disturbed,           \* the driver has been inactive, or one of its reads
                         \* or writes has failed, at some point so far
    idleValue,           \* limit last applied by SetTdpLimit while idle
    refBalance,          \* per key: registered entries - releases processed
    tokBalance,          \* per key: tokens returned - releases processed
    \* ---- SysfsWriterQueue and SysfsWriterService ----
    values,              \* Mutex<SysfsQueueMap>: path -> request, 0 if absent
    notify,              \* Notify: a permit is stored
    worker,              \* position of SysfsWriterService::run
    taken,               \* the request recv() returned to run(), 0 if none
    file,                \* contents of the file at each path
    requests,            \* every send so far: arguments, progress, receiver
    \* ---- Daemon ----
    services,            \* JoinSet<Result<()>>: state of each task
    token,               \* CancellationToken: the root token is cancelled
    daemonChannel,       \* Receiver<DaemonCommand>, FIFO
    signals,             \* signals delivered to the listeners of this
                         \* iteration of the event loop and not yet taken
    daemon,              \* position of Daemon::run ("sending": in
                         \* handle_command, at channel.send(WriteState))
    res,                 \* the result run() holds
    handles,             \* the token add_service made for each task
    ds_inhibit,          \* RootContext: task whose handle it holds, 0 if None
    \* ---- history of the daemon (not program state) ----
    cause,               \* what ended the event loop
    found,               \* task errors found by join_next, in order
    trace,               \* calls made by the last step of run(), in order
    \* ---- a TdpLimitManager called on its own ----
    manager,             \* Box<dyn TdpLimitManager>: method and its profile
    platform_profile,    \* contents of the platform profile
    files,               \* contents of each register file, raw unit
    call,                \* history: the last call on the driver
    \* ---- the user daemon and its session object server ----
    device_config,       \* what device_config() finds on this device
    stage,               \* position of daemon() of the user daemon
    tdp_service,         \* Result<TdpManagerService> of create_connections
    tdp_tx,              \* Option<UnboundedSender<TdpManagerCommand>> is Some
    object_server,       \* interface at MANAGER_PATH -> who provides it
    remotes,             \* RemoteInterface1: interface -> peer that owns it
    added,               \* services daemon() handed to add_service
    update_tasks,        \* tasks spawned to export or remove TdpLimit1
    dbus_reply,          \* history: the reply to the last RemoteInterface1 call
    \* ---- SessionManager and the session state of the user context ----
    session_manager,     \* UserContext.state.session_manager
    state_file,          \* the session state last written by write_state
    default_session,     \* the session last passed to set_default_session
    user_channel,        \* commands queued in the user daemon's channel
    calls,               \* each call of a SessionManager setter: its
                         \* position and the locals it holds
    \* ---- the process-wide binding of the SysfsWriterQueue ----
    SYSFS_WRITER,        \* OnceCell<Arc<SysfsWriterQueue>>: the queue bound,
                         \* 0 if unset
    inits,               \* each call of SysfsWriterService::init: its
                         \* position and its result
    queues,              \* each queue created: the contents pending for the
                         \* charge-limit attribute, NoCharge if none
    charge               \* history: the last set_max_charge_level call

arbiterVars == <<channel, download_handles, previous_limit, download_mode_limit,
                 wstate, wkey, capacity, senders, running, method, profileMatches, reg,
                 last, disturbed, idleValue, refBalance, tokBalance>>

bindingVars == <<SYSFS_WRITER, inits, queues, charge>>

coalescerVars == <<values, notify, worker, taken, file, requests, bindingVars>>

supervisorVars == <<services, token, daemonChannel, signals, daemon, res,
                    handles, ds_inhibit, cause, found, trace>>

driverVars == <<manager, platform_profile, files, call>>

sessionVars == <<session_manager, state_file, default_session, user_channel,
                 calls>>

serverVars == <<device_config, stage, tdp_service, tdp_tx, object_server,
                remotes, added, update_tasks, dbus_reply, sessionVars>>

vars == <<arbiterVars, coalescerVars, supervisorVars, driverVars, serverVars>>

(***************************************************************************)
(* Driver capability: TdpLimitManager                                      *)
(***************************************************************************)
\* format!("{limit}000000") for amdgpu, limit.to_string() for firmware attrs
ToRaw(m, limit) ==
    IF m = "AmdgpuHwmon" THEN limit * MicroWatts ELSE limit

\* power1cap / 1_000_000 for amdgpu, the parsed value for firmware attrs
FromRaw(m, raw) ==
    IF m = "AmdgpuHwmon" THEN raw \div MicroWatts ELSE raw

\* TdpLimitManager::is_active: the default is Ok(true); the firmware
\* attribute method compares the platform profile with the configured one
IsActive(m, pm) ==
    IF m = "AmdgpuHwmon" THEN TRUE ELSE pm

InRange(limit) ==
    MinLimit <= limit /\ limit <= MaxLimit

\* TdpLimitManager::get_tdp_limit; rd = "fail" is an I/O or parse error
GetTdpLimit(m, pm, raw, rd) ==
    IF m = "FirmwareAttribute" /\ ~IsActive(m, pm)
    THEN [ok |-> FALSE, err |-> "inactive", value |-> 0]
    ELSE IF rd = "fail"
    THEN [ok |-> FALSE, err |-> "io", value |-> 0]
    ELSE [ok |-> TRUE, err |-> "none", value |-> FromRaw(m, raw)]

\* TdpLimitManager::set_tdp_limit; wr = "fail": the first register write
\* fails, wr = "partial": the first register is written and a later one fails
DriverSetTdpLimit(m, pm, raw, limit, wr) ==
    IF m = "FirmwareAttribute" /\ ~IsActive(m, pm)
    THEN [ok |-> FALSE, err |-> "inactive", reg |-> raw]
    ELSE IF ~InRange(limit)
    THEN [ok |-> FALSE, err |-> "range", reg |-> raw]
    ELSE IF wr = "fail"
    THEN [ok |-> FALSE, err |-> "io", reg |-> raw]
    ELSE IF wr = "partial"
    THEN [ok |-> FALSE, err |-> "io", reg |-> ToRaw(m, limit)]
    ELSE [ok |-> TRUE, err |-> "none", reg |-> ToRaw(m, limit)]

\* what the driver's I/O does during one handler: every call succeeds, or one
\* call fails (the handler returns at the first failure)
IoOk == [active |-> "ok", read |-> "ok", write |-> "ok"]
IoOutcomes == {IoOk,
               [IoOk EXCEPT !.active = "fail"],
               [IoOk EXCEPT !.read = "fail"],
               [IoOk EXCEPT !.write = "fail"],
               [IoOk EXCEPT !.write = "partial"]}

(***************************************************************************)
(* Drivers: the register files of each TdpLimitManager                     *)
(***************************************************************************)
\* TDP_LIMIT1 and TDP_LIMIT2 of the amdgpu hwmon; SPL_SUFFIX, SPPT_SUFFIX
\* and FPPT_SUFFIX of the firmware attribute, in the order they are written
AmdgpuFiles == <<"power1_cap", "power2_cap">>
FirmwareFiles == <<"ppt_pl1_spl", "ppt_pl2_sppt", "ppt_pl3_fppt">>
RegisterFiles ==
    {AmdgpuFiles[k] : k \in DOMAIN AmdgpuFiles}
      \cup {FirmwareFiles[k] : k \in DOMAIN FirmwareFiles}

\* FirmwareAttributeConfig::performance_profile; the contents of the
\* platform profile, "absent" when the device configuration has no
\* performance_profile section
ConfiguredProfiles == {"none", "custom"}
PlatformProfiles == {"absent", "custom", "balanced"}

\* limits a caller passes to set_tdp_limit
DriverLimits == {2, 10, 20}

\* what the I/O of one driver call does: every step succeeds, or one fails;
\* failAt = k: the k-th register write fails; power2: File::create of
\* power2_cap succeeds
DriverIoOk ==
    [active |-> "ok", range |-> "ok", read |-> "ok", failAt |-> 0,
     power2 |-> TRUE]
DriverIoOutcomes ==
    {DriverIoOk,
     [DriverIoOk EXCEPT !.active = "fail"],
     [DriverIoOk EXCEPT !.range = "fail"],
     [DriverIoOk EXCEPT !.read = "fail"],
     [DriverIoOk EXCEPT !.failAt = 1],
     [DriverIoOk EXCEPT !.failAt = 2],
     [DriverIoOk EXCEPT !.failAt = 3],
     [DriverIoOk EXCEPT !.power2 = FALSE]}

\* the first n of the files named are written with value
WriteFirst(f, names, n, value) ==
    [name \in DOMAIN f |->
       IF \E k \in 1..n : names[k] = name THEN value ELSE f[name]]

FirstFiles(names, n) ==
    {names[k] : k \in 1..n}

DriverResult(ok, err, value, f, written) ==
    [ok |-> ok, err |-> err, value |-> value, files |-> f,
     written |-> written]

\* AmdgpuHwmonTdpLimitManager::get_tdp_limit
AmdgpuGetTdpLimit(f, io) ==
    IF io.read = "fail"
    THEN DriverResult(FALSE, "io", 0, f, {})
    ELSE DriverResult(TRUE, "none", f["power1_cap"] \div MicroWatts, f, {})

\* a variant of the amdgpu set_tdp_limit without the ensure! on the range
AmdgpuSetTdpLimit_NoEnsure(f, limit, io) ==
    DriverResult(TRUE, "none", 0,
                 WriteFirst(f, AmdgpuFiles, 2, limit * MicroWatts),
                 FirstFiles(AmdgpuFiles, 2))

\* AmdgpuHwmonTdpLimitManager::set_tdp_limit: ensure! on the range, then
\* "{limit}000000" is written to power1_cap and, if it can be created, to
\* power2_cap
AmdgpuSetTdpLimit(f, limit, io) ==
    LET data == limit * MicroWatts IN
    IF io.range = "fail" THEN DriverResult(FALSE, "io", 0, f, {})
    ELSE IF ~InRange(limit) THEN DriverResult(FALSE, "range", 0, f, {})
    ELSE IF io.failAt = 1 THEN DriverResult(FALSE, "io", 0, f, {})
    ELSE IF ~io.power2
    THEN DriverResult(TRUE, "none", 0, WriteFirst(f, AmdgpuFiles, 1, data),
                      FirstFiles(AmdgpuFiles, 1))
    ELSE IF io.failAt = 2
    THEN DriverResult(FALSE, "io", 0, WriteFirst(f, AmdgpuFiles, 1, data),
                      FirstFiles(AmdgpuFiles, 1))
    ELSE DriverResult(TRUE, "none", 0, WriteFirst(f, AmdgpuFiles, 2, data),
                      FirstFiles(AmdgpuFiles, 2))

\* a variant of is_active that is the trait's default: always Ok(true)
FirmwareIsActive_Default(pp, plat, io) ==
    [ok |-> TRUE, value |-> TRUE]

\* FirmwareAttributeLimitManager::is_active: Ok(true) without a configured
\* profile or without a performance_profile section, else whether the
\* platform profile is the configured one
FirmwareIsActive(pp, plat, io) ==
    IF pp = "none" THEN [ok |-> TRUE, value |-> TRUE]
    ELSE IF io.active = "fail" THEN [ok |-> FALSE, value |-> FALSE]
    ELSE IF plat = "absent" THEN [ok |-> TRUE, value |-> TRUE]
    ELSE [ok |-> TRUE, value |-> plat = pp]

\* FirmwareAttributeLimitManager::get_tdp_limit
FirmwareGetTdpLimit(pp, plat, f, io) ==
    LET a == FirmwareIsActive(pp, plat, io) IN
    IF ~a.ok THEN DriverResult(FALSE, "io", 0, f, {})
    ELSE IF ~a.value THEN DriverResult(FALSE, "inactive", 0, f, {})
    ELSE IF io.read = "fail" THEN DriverResult(FALSE, "io", 0, f, {})
    ELSE DriverResult(TRUE, "none", f["ppt_pl1_spl"], f, {})

\* FirmwareAttributeLimitManager::set_tdp_limit: ensure! on is_active, then
\* on the range, then the limit is written to the three attributes in order
FirmwareSetTdpLimit(pp, plat, f, limit, io) ==
    LET a == FirmwareIsActive(pp, plat, io) IN
    IF ~a.ok THEN DriverResult(FALSE, "io", 0, f, {})
    ELSE IF ~a.value THEN DriverResult(FALSE, "inactive", 0, f, {})
    ELSE IF io.range = "fail" THEN DriverResult(FALSE, "io", 0, f, {})
    ELSE IF ~InRange(limit) THEN DriverResult(FALSE, "range", 0, f, {})
    ELSE IF io.failAt = 0
    THEN DriverResult(TRUE, "none", 0, WriteFirst(f, FirmwareFiles, 3, limit),
                      FirstFiles(FirmwareFiles, 3))
    ELSE DriverResult(FALSE, "io", 0,
                      WriteFirst(f, FirmwareFiles, io.failAt - 1, limit),
                      FirstFiles(FirmwareFiles, io.failAt - 1))

NoCall ==
    [op |-> "none", limit |-> 0, io |-> DriverIoOk, platform |-> "absent",
     ok |-> TRUE, err |-> "none", value |-> 0, written |-> {},
     before |-> [name \in RegisterFiles |-> 0]]

\* tdp_limit_manager() for method m with the register files of a device
\* whose limit is the initial one
DriverNew(m, pp, plat) ==
    /\ manager = [method |-> m, performance_profile |-> pp]
    /\ platform_profile = plat
    /\ files = [name \in RegisterFiles |->
                  IF name \in FirstFiles(AmdgpuFiles, 2)
                  THEN MaxLimit * MicroWatts ELSE MaxLimit]
    /\ call = NoCall

DriverIdle ==
    DriverNew("AmdgpuHwmon", "none", "absent")

(***************************************************************************)
(* The user daemon: construction and the pure part of its handlers         *)
(***************************************************************************)
\* what device_config() yields: an error (the directory of the device
\* configurations cannot be read, or the match of the device fails); no
\* configuration for this device (none matches, files that cannot be parsed
\* being skipped); a configuration without tdp_limit; one whose tdp_limit
\* names the firmware attribute method without its settings; one with
\* tdp_limit and no download_mode_limit; one with both
DeviceConfigs ==
    {"unreadable", "none", "no_tdp_limit", "no_firmware_attribute",
     "tdp_limit", "download_mode_limit"}

\* interfaces at MANAGER_PATH the model follows, those RemoteInterface1
\* takes registrations for, and the names callers ask for
ObjectInterfaces ==
    {"TdpLimit1", "LowPowerMode1", "PerformanceProfile1", "BatteryChargeLimit1"}
RegistryInterfaces == {"PerformanceProfile1", "BatteryChargeLimit1"}
RequestedInterfaces == RegistryInterfaces \cup {"TdpLimit1"}
Peers == {":1.1", ":1.2"}
UpdateTaskIds == 1..MaxUpdates

NoTask == [pc |-> "absent", kind |-> "none", reply |-> "none"]

\* enum LoginMode, the desktop sessions callers name, Option::None of
\* SessionManagerState.desktop_session
LoginModes == {"Game", "Desktop"}
DesktopSessions == {"a.desktop", "b.desktop"}
NoSession == "None"
\* impl Default for DesktopSession
DesktopSessionDefault == "plasmax11.desktop"
\* session_for_mode(LoginMode::Game)
GameSession == "gamescope-wayland.desktop"
\* impl Default for SessionManagerState
SessionManagerStateDefault ==
    [default_login_mode |-> "Game", desktop_session |-> NoSession]
SessionManagerStates ==
    [default_login_mode : LoginModes,
     desktop_session : DesktopSessions \cup {NoSession}]
\* mpsc::channel(10)
UserChannelCapacity == 10
CallIds == 1..MaxCalls
IdleCall ==
    [op |-> "none", arg |-> "", pc |-> "idle", replied |-> FALSE,
     reply |-> SessionManagerStateDefault,
     state |-> SessionManagerStateDefault, session |-> "", result |-> "none"]
NoReply ==
    [op |-> "none", iface |-> "", sender |-> "", result |-> "none", n |-> 0]

\* TdpManagerService::new: device_config()?, the tdp_limit section,
\* tdp_limit_manager()?, RootManagerProxy::new()?
TdpManagerServiceResult(cfg, proxy) ==
    IF cfg \in {"tdp_limit", "download_mode_limit"} /\ proxy = "ok"
    THEN "Ok" ELSE "Err"

\* create_connections: tdp_tx is Some when the service was constructed
TdpTx(result) ==
    result = "Ok"

\* create_device_interfaces: device_config()?; nothing without a
\* configuration; with a sender, LowPowerMode1 if download_mode_limit is
\* configured and the task that asks IsActive; PerformanceProfile1 if
\* configured with platform profiles available
CreateDeviceInterfaces(cfg, tx, perf) ==
    IF cfg = "unreadable"
    THEN [ok |-> FALSE, interfaces |-> {}, spawn |-> FALSE]
    ELSE IF cfg = "none"
    THEN [ok |-> TRUE, interfaces |-> {}, spawn |-> FALSE]
    ELSE [ok |-> TRUE,
          interfaces |-> (IF tx /\ cfg = "download_mode_limit"
                          THEN {"LowPowerMode1"} ELSE {})
                           \cup (IF perf THEN {"PerformanceProfile1"} ELSE {}),
          spawn |-> tx]

\* the end of the tasks that asked IsActive: true puts TdpLimit1 in place
\* (an interface already there stays); false removes it, in the task of
\* set_performance_profile only; an error leaves the object server alone
ApplyIsActive(os, kind, reply) ==
    IF reply = "true" THEN [os EXCEPT !["TdpLimit1"] = "local"]
    ELSE IF reply = "false" /\ kind = "update"
    THEN [os EXCEPT !["TdpLimit1"] = "none"]
    ELSE os

\* daemon(): signal_relay_service, mirror_service, and tdp_service if Ok
DaemonServices(result) ==
    {"signal-relay", "job-manager"}
      \cup (IF result = "Ok" THEN {"tdp-manager"} ELSE {})

\* a variant of unregister_interface! without the comparison of the sender
UnregisterInterface_AnySender(regs, os, name, sender) ==
    IF name \notin RegistryInterfaces
    THEN [remotes |-> regs, object_server |-> os, result |-> "InvalidArgs"]
    ELSE IF regs[name] = "none"
    THEN [remotes |-> regs, object_server |-> os, result |-> "false"]
    ELSE [remotes |-> [regs EXCEPT ![name] = "none"],
          object_server |-> [os EXCEPT ![name] = "none"],
          result |-> "true"]

\* unregister_interface!: unknown name; nothing registered; registered by
\* another remote; otherwise the interface is removed
UnregisterInterface(regs, os, name, sender) ==
    IF name \notin RegistryInterfaces
    THEN [remotes |-> regs, object_server |-> os, result |-> "InvalidArgs"]
    ELSE IF regs[name] = "none"
    THEN [remotes |-> regs, object_server |-> os, result |-> "false"]
    ELSE IF regs[name] # sender
    THEN [remotes |-> regs, object_server |-> os, result |-> "AccessDenied"]
    ELSE [remotes |-> [regs EXCEPT ![name] = "none"],
          object_server |-> [os EXCEPT ![name] = "none"],
          result |-> "true"]

\* register_interface!: unknown name; already registered; provided by the
\* daemon itself; a remote of that name already in the object server;
\* otherwise the remote is created (which may fail) and put in place
RegisterInterface(regs, os, name, sender, io) ==
    IF name \notin RegistryInterfaces
    THEN [remotes |-> regs, object_server |-> os, result |-> "InvalidArgs"]
    ELSE IF regs[name] # "none"
    THEN [remotes |-> regs, object_server |-> os, result |-> "false"]
    ELSE IF os[name] # "none"
    THEN [remotes |-> regs, object_server |-> os, result |-> "false"]
    ELSE IF io = "fail"
    THEN [remotes |-> regs, object_server |-> os, result |-> "Failed"]
    ELSE [remotes |-> [regs EXCEPT ![name] = sender],
          object_server |-> [os EXCEPT ![name] = sender],
          result |-> "true"]

\* the user daemon before daemon() has run, on a device with configuration cfg
UserContextNew(cfg, state) ==
    /\ device_config = cfg
    /\ stage = "start"
    /\ tdp_service = "unset"
    /\ tdp_tx = FALSE
    /\ object_server = [name \in ObjectInterfaces |-> "none"]
    /\ remotes = [name \in RegistryInterfaces |-> "none"]
    /\ added = {}
    /\ update_tasks = [t \in UpdateTaskIds |-> NoTask]
    /\ dbus_reply = NoReply
    /\ session_manager = state
    /\ state_file = state
    /\ default_session = ""
    /\ user_channel = <<>>
    /\ calls = [c \in CallIds |-> IdleCall]

UserDaemonNew(cfg) ==
    UserContextNew(cfg, SessionManagerStateDefault)

ServerIdle ==
    UserDaemonNew("none")

(***************************************************************************)
(* TdpManagerService: the pure part of each handler                        *)
(***************************************************************************)
IsEmpty(h) ==
    DOMAIN h = {}

\* a variant of the entry update that forgets and_modify: a repeated
\* acquisition of a key leaves its count alone
EntryIncrement_NoModify(h, identifier) ==
    IF identifier \in DOMAIN h
    THEN h
    ELSE [k \in DOMAIN h \cup {identifier} |->
            IF k = identifier THEN 1 ELSE h[k]]

\* download_handles.entry(identifier).and_modify(|c| *c += 1).or_insert(1)
EntryIncrement(h, identifier) ==
    IF identifier \in DOMAIN h
    THEN [h EXCEPT ![identifier] = @ + 1]
    ELSE [k \in DOMAIN h \cup {identifier} |->
            IF k = identifier THEN 1 ELSE h[k]]

\* a variant of the release that never removes an entry: the count stops
\* at 1 and the key stays in the table
EntryRelease_NoRemove(h, identifier) ==
    IF identifier \notin DOMAIN h THEN h
    ELSE IF h[identifier] = 1 THEN h
    ELSE [h EXCEPT ![identifier] = @ - 1]

\* a variant of the release that removes the entry whatever its count
EntryRelease_RemoveAlways(h, identifier) ==
    IF identifier \notin DOMAIN h THEN h
    ELSE [k \in DOMAIN h \ {identifier} |-> h[k]]

\* the match on download_handles.entry(identifier) of run(): Occupied with
\* count 1 is removed, Occupied is decremented, Vacant is left alone
EntryRelease(h, identifier) ==
    IF identifier \notin DOMAIN h THEN h
    ELSE IF h[identifier] = 1
    THEN [k \in DOMAIN h \ {identifier} |-> h[k]]
    ELSE [h EXCEPT ![identifier] = @ - 1]

\* RootManager::set_tdp_limit, the other end of the proxy: the limit is
\* handed to the set_tdp_limit of the configured driver
RootSetTdpLimit(m, pm, raw, limit, wr) ==
    DriverSetTdpLimit(m, pm, raw, limit, wr)

\* TdpManagerService::set_tdp_limit: self.proxy.set_tdp_limit(limit); the
\* tdp_limit_changed signal it then emits changes no state
SetTdpLimit(m, pm, raw, limit, wr) ==
    RootSetTdpLimit(m, pm, raw, limit, wr)

\* a variant of update_download_mode without the early return for a
\* driver that is not active
UpdateDownloadMode_NoActiveCheck(h, prev, dml, m, pm, raw, io) ==
    LET skip == [ok |-> TRUE, err |-> "none", previous_limit |-> prev,
                 reg |-> raw, issued |-> <<>>]
    IN
    IF m = "FirmwareAttribute" /\ io.active = "fail"
    THEN [skip EXCEPT !.ok = FALSE, !.err = "io"]
    ELSE IF dml = NoLimit THEN skip
    ELSE
      LET cur == GetTdpLimit(m, pm, raw, io.read) IN
      IF ~cur.ok THEN [skip EXCEPT !.ok = FALSE, !.err = cur.err]
      ELSE IF cur.value = 0 THEN [skip EXCEPT !.err = "zero"]
      ELSE IF IsEmpty(h)
      THEN
        IF prev # NoLimit
        THEN
          LET w == SetTdpLimit(m, pm, raw, prev, io.write) IN
          [ok |-> w.ok, err |-> w.err,
           previous_limit |-> IF w.ok THEN NoLimit ELSE prev,
           reg |-> w.reg, issued |-> <<prev>>]
        ELSE skip
      ELSE
        LET cached == IF prev = NoLimit THEN cur.value ELSE prev IN
        IF cur.value # dml
        THEN
          LET w == SetTdpLimit(m, pm, raw, dml, io.write) IN
          [ok |-> w.ok, err |-> w.err, previous_limit |-> cached,
           reg |-> w.reg, issued |-> <<dml>>]
        ELSE [skip EXCEPT !.previous_limit = cached]

\* a variant of update_download_mode that writes the override without
\* comparing it with the current limit
UpdateDownloadMode_AlwaysWrite(h, prev, dml, m, pm, raw, io) ==
    LET skip == [ok |-> TRUE, err |-> "none", previous_limit |-> prev,
                 reg |-> raw, issued |-> <<>>]
    IN
    IF m = "FirmwareAttribute" /\ io.active = "fail"
    THEN [skip EXCEPT !.ok = FALSE, !.err = "io"]
    ELSE IF ~IsActive(m, pm) THEN skip
    ELSE IF dml = NoLimit THEN skip
    ELSE
      LET cur == GetTdpLimit(m, pm, raw, io.read) IN
      IF ~cur.ok THEN [skip EXCEPT !.ok = FALSE, !.err = cur.err]
      ELSE IF cur.value = 0 THEN [skip EXCEPT !.err = "zero"]
      ELSE IF IsEmpty(h)
      THEN
        IF prev # NoLimit
        THEN
          LET w == SetTdpLimit(m, pm, raw, prev, io.write) IN
          [ok |-> w.ok, err |-> w.err,
           previous_limit |-> IF w.ok THEN NoLimit ELSE prev,
           reg |-> w.reg, issued |-> <<prev>>]
        ELSE skip
      ELSE
        LET cached == IF prev = NoLimit THEN cur.value ELSE prev
            w == SetTdpLimit(m, pm, raw, dml, io.write) IN
        [ok |-> w.ok, err |-> w.err, previous_limit |-> cached,
         reg |-> w.reg, issued |-> <<dml>>]

\* TdpManagerService::update_download_mode
UpdateDownloadMode(h, prev, dml, m, pm, raw, io) ==
    LET skip == [ok |-> TRUE, err |-> "none", previous_limit |-> prev,
                 reg |-> raw, issued |-> <<>>]
    IN
    IF m = "FirmwareAttribute" /\ io.active = "fail"
    THEN [skip EXCEPT !.ok = FALSE, !.err = "io"]
    ELSE IF ~IsActive(m, pm) THEN skip
    ELSE IF dml = NoLimit THEN skip
    ELSE
      LET cur == GetTdpLimit(m, pm, raw, io.read) IN
      IF ~cur.ok THEN [skip EXCEPT !.ok = FALSE, !.err = cur.err]
      ELSE IF cur.value = 0 THEN [skip EXCEPT !.err = "zero"]
      ELSE IF IsEmpty(h)
      THEN
        IF prev # NoLimit
        THEN
          LET w == SetTdpLimit(m, pm, raw, prev, io.write) IN
          [ok |-> w.ok, err |-> w.err,
           previous_limit |-> IF w.ok THEN NoLimit ELSE prev,
           reg |-> w.reg, issued |-> <<prev>>]
        ELSE skip
      ELSE
        LET cached == IF prev = NoLimit THEN cur.value ELSE prev IN
        IF cur.value # dml
        THEN
          LET w == SetTdpLimit(m, pm, raw, dml, io.write) IN
          [ok |-> w.ok, err |-> w.err, previous_limit |-> cached,
           reg |-> w.reg, issued |-> <<dml>>]
        ELSE [skip EXCEPT !.previous_limit = cached]

\* a variant of the SetTdpLimit handler without the is_empty() test
HandleSetTdpLimit_NoArbitration(h, m, pm, raw, limit, wr) ==
    LET w == SetTdpLimit(m, pm, raw, limit, wr) IN
    [ok |-> w.ok, err |-> w.err, reg |-> w.reg, issued |-> <<limit>>]

\* handle_command, TdpManagerCommand::SetTdpLimit(limit)
HandleSetTdpLimit(h, m, pm, raw, limit, wr) ==
    IF IsEmpty(h)
    THEN
      LET w == SetTdpLimit(m, pm, raw, limit, wr) IN
      [ok |-> w.ok, err |-> w.err, reg |-> w.reg, issued |-> <<limit>>]
    ELSE [ok |-> TRUE, err |-> "none", reg |-> raw, issued |-> <<>>]

\* a variant of get_download_mode_handle without the early return for a
\* missing download_mode_limit
GetDownloadModeHandle_NoCheck(h, prev, dml, m, pm, raw, identifier, io, pipe) ==
    IF pipe = "fail"
    THEN [result |-> "err", spawned |-> FALSE, handles |-> h, err |-> "pipe",
          previous_limit |-> prev, reg |-> raw, issued |-> <<>>]
    ELSE
      LET h2 == EntryIncrement(h, identifier)
          u == UpdateDownloadMode(h2, prev, dml, m, pm, raw, io)
      IN
      [result |-> IF u.ok /\ pipe = "ok" THEN "token" ELSE "err",
       spawned |-> TRUE, handles |-> h2,
       err |-> IF ~u.ok THEN u.err ELSE IF pipe = "ok" THEN u.err ELSE "pipe",
       previous_limit |-> u.previous_limit, reg |-> u.reg, issued |-> u.issued]

\* a variant of get_download_mode_handle that records the entry and spawns
\* the watcher only after update_download_mode has succeeded
GetDownloadModeHandle_UpdateFirst(h, prev, dml, m, pm, raw, identifier, io, pipe) ==
    IF dml = NoLimit
    THEN [result |-> "none", spawned |-> FALSE, handles |-> h, err |-> "none",
          previous_limit |-> prev, reg |-> raw, issued |-> <<>>]
    ELSE IF pipe = "fail"
    THEN [result |-> "err", spawned |-> FALSE, handles |-> h, err |-> "pipe",
          previous_limit |-> prev, reg |-> raw, issued |-> <<>>]
    ELSE
      LET h2 == EntryIncrement(h, identifier)
          u == UpdateDownloadMode(h2, prev, dml, m, pm, raw, io)
      IN
      IF ~u.ok
      THEN [result |-> "err", spawned |-> FALSE, handles |-> h, err |-> u.err,
            previous_limit |-> u.previous_limit, reg |-> u.reg,
            issued |-> u.issued]
      ELSE [result |-> IF pipe = "ok" THEN "token" ELSE "err",
            spawned |-> TRUE, handles |-> h2,
            err |-> IF pipe = "ok" THEN u.err ELSE "pipe",
            previous_limit |-> u.previous_limit, reg |-> u.reg,
            issued |-> u.issued]

\* a variant of get_download_mode_handle that hands the token out even when
\* update_download_mode has failed
GetDownloadModeHandle_TokenOnFailure(h, prev, dml, m, pm, raw, identifier, io, pipe) ==
    IF dml = NoLimit
    THEN [result |-> "none", spawned |-> FALSE, handles |-> h, err |-> "none",
          previous_limit |-> prev, reg |-> raw, issued |-> <<>>]
    ELSE IF pipe = "fail"
    THEN [result |-> "err", spawned |-> FALSE, handles |-> h, err |-> "pipe",
          previous_limit |-> prev, reg |-> raw, issued |-> <<>>]
    ELSE
      LET h2 == EntryIncrement(h, identifier)
          u == UpdateDownloadMode(h2, prev, dml, m, pm, raw, io)
      IN
      [result |-> IF pipe = "ok" THEN "token" ELSE "err",
       spawned |-> TRUE, handles |-> h2,
       err |-> IF ~u.ok THEN u.err ELSE IF pipe = "ok" THEN u.err ELSE "pipe",
       previous_limit |-> u.previous_limit, reg |-> u.reg, issued |-> u.issued]

\* TdpManagerService::get_download_mode_handle; pipe = "fail": pipe::pipe()
\* fails, pipe = "fdfail": into_blocking_fd() fails
GetDownloadModeHandle(h, prev, dml, m, pm, raw, identifier, io, pipe) ==
    IF dml = NoLimit
    THEN [result |-> "none", spawned |-> FALSE, handles |-> h, err |-> "none",
          previous_limit |-> prev, reg |-> raw, issued |-> <<>>]
    ELSE IF pipe = "fail"
    THEN [result |-> "err", spawned |-> FALSE, handles |-> h, err |-> "pipe",
          previous_limit |-> prev, reg |-> raw, issued |-> <<>>]
    ELSE
      LET h2 == EntryIncrement(h, identifier)
          u == UpdateDownloadMode(h2, prev, dml, m, pm, raw, io)
      IN
      [result |-> IF u.ok /\ pipe = "ok" THEN "token" ELSE "err",
       spawned |-> TRUE, handles |-> h2,
       err |-> IF ~u.ok THEN u.err ELSE IF pipe = "ok" THEN u.err ELSE "pipe",
       previous_limit |-> u.previous_limit, reg |-> u.reg, issued |-> u.issued]

\* a variant of the join_next branch that removes the entry but does not
\* call update_download_mode when the table becomes empty
JoinNext_NoRestore(h, prev, dml, m, pm, raw, identifier, io) ==
    [handles |-> EntryRelease(h, identifier), ok |-> TRUE, err |-> "none",
     previous_limit |-> prev, reg |-> raw, issued |-> <<>>]

\* run(), the join_next branch for Some(Ok(identifier))
JoinNext(h, prev, dml, m, pm, raw, identifier, io) ==
    LET h2 == EntryRelease(h, identifier)
        removed == identifier \in DOMAIN h /\ identifier \notin DOMAIN h2
    IN
    IF removed /\ IsEmpty(h2)
    THEN
      LET u == UpdateDownloadMode(h2, prev, dml, m, pm, raw, io) IN
      [handles |-> h2, ok |-> u.ok, err |-> u.err,
       previous_limit |-> u.previous_limit, reg |-> u.reg, issued |-> u.issued]
    ELSE [handles |-> h2, ok |-> TRUE, err |-> "none",
          previous_limit |-> prev, reg |-> raw, issued |-> <<>>]

(***************************************************************************)
(* SysfsWriterQueue: the pure part                                         *)
(***************************************************************************)
Paths == {"p1", "p2"}
Payloads == {"1", "2"}
\* contents of a file nothing was written to
NoContents == ""
RequestIds == 1..MaxSends

\* HashMap::insert without the notification of the replaced sender: the
\* entry it replaces is forgotten
QueueInsert_Forget(vals, path, r) ==
    [values |-> [vals EXCEPT ![path] = r], old |-> 0]

\* HashMap::insert(path, (contents, tx)): the new map and the entry replaced
QueueInsert(vals, path, r) ==
    [values |-> [vals EXCEPT ![path] = r], old |-> vals[path]]

\* a variant of remove_entry that reads the entry and leaves it in the map
QueueRemove_Peek(vals, path) ==
    [values |-> vals, taken |-> vals[path]]

\* values.remove_entry(&path)
QueueRemove(vals, path) ==
    [values |-> [vals EXCEPT ![path] = 0], taken |-> vals[path]]

\* values.keys(): the paths with a pending entry
Keys(vals) ==
    {path \in Paths : vals[path] # 0}

\* tx.send(outcome) on the oneshot sender of request r
Deliver(reqs, r, outcome) ==
    IF r = 0 THEN reqs
    ELSE [reqs EXCEPT ![r].outcomes = Append(@, outcome)]

\* write_synced(path, contents), whose Result run() forwards: the write and
\* the sync succeed; the write fails and the file is left alone; or the
\* sync fails after the write
WriteSynced(f, path, contents, io) ==
    IF io = "ok" THEN [file |-> [f EXCEPT ![path] = contents], ok |-> TRUE]
    ELSE IF io = "fail" THEN [file |-> f, ok |-> FALSE]
    ELSE [file |-> [f EXCEPT ![path] = contents], ok |-> FALSE]

InitIds == 1..MaxInits
\* the limits callers pass to set_max_charge_level
ChargeLimits == {60, 80, 101}
NoCharge == -1
NoInit == [pc |-> "idle", result |-> "none"]
NoChargeCall == [limit |-> 0, result |-> "none", queue |-> 0]

\* static SYSFS_WRITER: OnceCell = OnceCell::const_new(), before any call of
\* SysfsWriterService::init
SysfsWriterUnset ==
    /\ SYSFS_WRITER = 0
    /\ inits = [i \in InitIds |-> NoInit]
    /\ queues = [i \in InitIds |-> NoCharge]
    /\ charge = NoChargeCall

\* SysfsWriterQueue::new and a worker about to call recv() for the first time
SysfsWriterQueueNew ==
    /\ values = [path \in Paths |-> 0]
    /\ notify = FALSE
    /\ worker = "recv"
    /\ taken = 0
    /\ file = [path \in Paths |-> NoContents]
    /\ requests = <<>>
    /\ SysfsWriterUnset

(***************************************************************************)
(* Daemon: construction                                                    *)
(***************************************************************************)
\* the task run() spawns to tell systemd that loading is done
ReadyTask == MaxServices + 1
TaskIds == 1..ReadyTask
Signals == {"SIGINT", "SIGTERM", "SIGHUP", "SIGQUIT"}
DaemonCommands == {"ContextCommand", "ReadConfig", "WriteState"}

Ok == [kind |-> "Ok", task |-> 0]
Err(kind) == [kind |-> kind, task |-> 0]
TaskErr(i) == [kind |-> "task", task |-> i]

\* the least element of a non-empty set of numbers
Min(S) == CHOOSE x \in S : \A y \in S : x <= y

\* a variant of add_service that hands out a token of its own
ChildToken_Detached(t) ==
    "detached"

\* self.token.child_token(): a child of a cancelled token is cancelled
ChildToken(t) ==
    IF t THEN "cancelled" ELSE "child"

\* CancellationToken::cancel on the root token reaches every child token
Cascade(h) ==
    [i \in TaskIds |-> IF h[i] = "child" THEN "cancelled" ELSE h[i]]

\* handle.cancel() on the token add_service returned for task i
CancelChild(h, i) ==
    [h EXCEPT ![i] = "cancelled"]

\* add_service: the task is spawned with a child of the root token and
\* starts at once; the token is returned
AddService(s, h, t, i) ==
    [services |-> [s EXCEPT ![i] = "running"],
     handles |-> [h EXCEPT ![i] = ChildToken(t)]]

\* Daemon::new followed by n calls of add_service
DaemonNew(n) ==
    /\ services = [i \in TaskIds |-> IF i <= n THEN "running" ELSE "absent"]
    /\ handles = [i \in TaskIds |-> IF i <= n THEN ChildToken(FALSE) ELSE "none"]
    /\ ds_inhibit = 0
    /\ token = FALSE
    /\ daemonChannel = <<>>
    /\ signals = {}
    /\ daemon = "start"
    /\ res = Ok
    /\ cause = "none"
    /\ found = <<>>
    /\ trace = <<>>

(***************************************************************************)
(* TdpManagerService: state machine                                        *)
(***************************************************************************)
Command(c, limit, identifier) ==
    [cmd |-> c, limit |-> limit, identifier |-> identifier, told |-> "none"]

\* TdpLimit1::set_tdp_limit: what the caller of the property is told: Ok(())
\* when the command was sent, a Failure when the arbiter's receiver is gone
SetTdpLimitReply(sent) ==
    IF sent THEN "Ok" ELSE "Failure"

EmptyMap == [k \in {} |-> 0]

NoStep ==
    [op |-> "none", identifier |-> "", limit |-> 0, arbitrated |-> FALSE,
     issued |-> <<>>, err |-> "none", result |-> "none",
     reply |-> EmptyMap, told |-> "none"]

\* a variant of recv() that yields the newest message of the channel
Recv_Newest(ch) ==
    [message |-> ch[Len(ch)], rest |-> SubSeq(ch, 1, Len(ch) - 1)]

\* self.channel.recv() on a channel that holds a message: the oldest one
Recv(ch) ==
    [message |-> Head(ch), rest |-> Tail(ch)]

\* a variant of run() that returns the error of handle_command with `?`
AfterCommand_Propagate(err) ==
    err = "none"

\* run(): `let _ = self.handle_command(message).await.inspect_err(..)`, the
\* error is logged and the loop goes round; the value is whether run() is
\* still in its loop
AfterCommand(err) ==
    TRUE

\* watchers spawned so far, and EnterDownloadMode commands still queued
Spawned == {w \in WatcherIds : wstate[w] # "none"}
QueuedEnters ==
    Cardinality({i \in 1..Len(channel) : channel[i].cmd = "EnterDownloadMode"})

\* TdpManagerService::new: empty join set and map, no previous limit, the
\* override of the configuration
TdpManagerServiceNew(m, dml) ==
    /\ channel = <<>>
    /\ download_handles = EmptyMap
    /\ previous_limit = NoLimit
    /\ download_mode_limit = dml
    /\ wstate = [w \in WatcherIds |-> "none"]
    /\ wkey = [w \in WatcherIds |-> ""]
    /\ senders = TRUE
    /\ running = TRUE
    /\ method = m
    /\ profileMatches = TRUE
    /\ \E l \in InitialLimits :
         /\ reg = ToRaw(method, l)
         /\ idleValue = l
    /\ last = NoStep
    /\ disturbed = FALSE
    /\ refBalance = [k \in Identifiers |-> 0]
    /\ tokBalance = [k \in Identifiers |-> 0]

InitArbiter ==
    /\ \E m \in Methods, dml \in {NoLimit, DownloadModeLimit} :
         TdpManagerServiceNew(m, dml)
    /\ capacity = MaxChannel
    /\ SysfsWriterQueueNew
    /\ DaemonNew(1)
    /\ DriverIdle
    /\ ServerIdle

configVars == <<download_mode_limit, method, capacity>>
runVars == <<senders, running>>
watcherVars == <<wstate, wkey>>
historyVars == <<disturbed, idleValue, refBalance, tokBalance>>

\* TdpLimit1::set_tdp_limit: the value is sent to the arbiter unchecked
SendSetTdpLimit(limit) ==
    /\ senders
    /\ Len(channel) < capacity
    /\ channel' = Append(channel, [Command("SetTdpLimit", limit, "")
                                     EXCEPT !.told = SetTdpLimitReply(TRUE)])
    /\ UNCHANGED <<download_handles, previous_limit, configVars, runVars, watcherVars,
                   profileMatches, reg, historyVars>>
    /\ last' = NoStep
    /\ UNCHANGED <<coalescerVars, supervisorVars, driverVars,
                   serverVars>>

\* LowPowerMode1::enter_download_mode
SendEnterDownloadMode(identifier) ==
    /\ senders
    /\ Len(channel) < capacity
    /\ Cardinality(Spawned) + QueuedEnters < MaxWatchers
    /\ channel' = Append(channel, Command("EnterDownloadMode", 0, identifier))
    /\ UNCHANGED <<download_handles, previous_limit, configVars, runVars, watcherVars,
                   profileMatches, reg, historyVars>>
    /\ last' = NoStep
    /\ UNCHANGED <<coalescerVars, supervisorVars, driverVars,
                   serverVars>>

\* LowPowerMode1::list_download_mode_handles
SendListDownloadModeHandles ==
    /\ senders
    /\ Len(channel) < capacity
    /\ channel' = Append(channel, Command("ListDownloadModeHandles", 0, ""))
    /\ UNCHANGED <<download_handles, previous_limit, configVars, runVars, watcherVars,
                   profileMatches, reg, historyVars>>
    /\ last' = NoStep
    /\ UNCHANGED <<coalescerVars, supervisorVars, driverVars,
                   serverVars>>

\* PerformanceProfile1::set_performance_profile: the platform profile is
\* changed through the root manager and UpdateDownloadMode is sent to the
\* arbiter. profileMatches is read by the firmware attribute method alone.
SetPerformanceProfile ==
    /\ senders
    /\ Len(channel) < capacity
    /\ profileMatches' = IF method = "FirmwareAttribute"
                         THEN ~profileMatches ELSE profileMatches
    /\ channel' = Append(channel, Command("UpdateDownloadMode", 0, ""))
    /\ disturbed' = (disturbed \/ ~IsActive(method, profileMatches'))
    /\ UNCHANGED <<download_handles, previous_limit, configVars, runVars, watcherVars,
                   reg, idleValue, refBalance, tokBalance>>
    /\ last' = NoStep
    /\ UNCHANGED <<coalescerVars, supervisorVars, driverVars,
                   serverVars>>

\* the holder of a liveness token closes it, or its process exits
CloseToken(w) ==
    /\ wstate[w] = "open"
    /\ wstate' = [wstate EXCEPT ![w] = "closed"]
    /\ UNCHANGED <<channel, download_handles, previous_limit, configVars, runVars, wkey,
                   profileMatches, reg, historyVars>>
    /\ last' = NoStep
    /\ UNCHANGED <<coalescerVars, supervisorVars, driverVars,
                   serverVars>>

\* TdpManagerService::wait_on_handle: is_read_closed() ends the task
WaitOnHandle(w) ==
    /\ wstate[w] = "closed"
    /\ wstate' = [wstate EXCEPT ![w] = "finished"]
    /\ UNCHANGED <<channel, download_handles, previous_limit, configVars, runVars, wkey,
                   profileMatches, reg, historyVars>>
    /\ last' = NoStep
    /\ UNCHANGED <<coalescerVars, supervisorVars, driverVars,
                   serverVars>>

\* TdpManagerService::wait_on_handle: ready() fails, reports an unexpected
\* event, or try_read fails; the task ends although the token is still held
WaitOnHandleError(w) ==
    /\ wstate[w] = "open"
    /\ wstate' = [wstate EXCEPT ![w] = "finished"]
    /\ UNCHANGED <<channel, download_handles, previous_limit, configVars, runVars, wkey,
                   profileMatches, reg, historyVars>>
    /\ last' = NoStep
    /\ UNCHANGED <<coalescerVars, supervisorVars, driverVars,
                   serverVars>>

IoFault(err) ==
    err \in {"io", "zero"}

\* run() receives SetTdpLimit(limit) and handle_command handles it
RecvSetTdpLimit ==
    /\ running
    /\ channel # <<>>
    /\ Recv(channel).message.cmd = "SetTdpLimit"
    /\ \E wr \in {"ok", "fail", "partial"} :
         LET limit == Recv(channel).message.limit
             r == HandleSetTdpLimit(download_handles, method, profileMatches,
                                    reg, limit, wr)
         IN
         /\ reg' = r.reg
         /\ idleValue' = IF r.issued # <<>> /\ r.ok THEN limit ELSE idleValue
         /\ disturbed' = (disturbed \/ IoFault(r.err))
         /\ running' = AfterCommand(r.err)
         /\ last' = [NoStep EXCEPT !.op = "SetTdpLimit", !.limit = limit,
                       !.arbitrated = ~IsEmpty(download_handles),
                       !.issued = r.issued, !.err = r.err,
                       !.told = Recv(channel).message.told]
    /\ channel' = Recv(channel).rest
    /\ UNCHANGED <<download_handles, previous_limit, configVars, senders, watcherVars,
                   profileMatches, refBalance, tokBalance>>
    /\ UNCHANGED <<coalescerVars, supervisorVars, driverVars,
                   serverVars>>

\* run() receives EnterDownloadMode(identifier, reply); the reply is
\* delivered, or the caller is gone and the token is dropped
RecvEnterDownloadMode ==
    /\ running
    /\ channel # <<>>
    /\ Recv(channel).message.cmd = "EnterDownloadMode"
    /\ \E io \in IoOutcomes, pipe \in {"ok", "fail", "fdfail"},
          delivered \in BOOLEAN :
         LET identifier == Recv(channel).message.identifier
             r == GetDownloadModeHandle(download_handles, previous_limit,
                                        download_mode_limit, method,
                                        profileMatches, reg, identifier, io, pipe)
             w == CHOOSE x \in WatcherIds \ Spawned :
                    \A y \in WatcherIds \ Spawned : x <= y
             held == r.result = "token" /\ delivered
         IN
         /\ r.spawned => WatcherIds \ Spawned # {}
         /\ download_handles' = r.handles
         /\ previous_limit' = r.previous_limit
         /\ reg' = r.reg
         /\ wstate' = IF r.spawned
                      THEN [wstate EXCEPT ![w] = IF held THEN "open" ELSE "closed"]
                      ELSE wstate
         /\ wkey' = IF r.spawned THEN [wkey EXCEPT ![w] = identifier] ELSE wkey
         /\ disturbed' = (disturbed \/ IoFault(r.err))
         /\ refBalance' = IF r.spawned
                          THEN [refBalance EXCEPT ![identifier] = @ + 1]
                          ELSE refBalance
         /\ tokBalance' = IF r.result = "token"
                          THEN [tokBalance EXCEPT ![identifier] = @ + 1]
                          ELSE tokBalance
         /\ running' = AfterCommand(r.err)
         /\ last' = [NoStep EXCEPT !.op = "EnterDownloadMode",
                       !.identifier = identifier,
                       !.arbitrated = ~IsEmpty(download_handles),
                       !.issued = r.issued, !.err = r.err,
                       !.result = IF r.result = "token" /\ ~delivered
                                  THEN "undelivered" ELSE r.result]
    /\ channel' = Recv(channel).rest
    /\ UNCHANGED <<configVars, senders, profileMatches, idleValue>>
    /\ UNCHANGED <<coalescerVars, supervisorVars, driverVars,
                   serverVars>>

\* run() receives UpdateDownloadMode
RecvUpdateDownloadMode ==
    /\ running
    /\ channel # <<>>
    /\ Recv(channel).message.cmd = "UpdateDownloadMode"
    /\ \E io \in IoOutcomes :
         LET r == UpdateDownloadMode(download_handles, previous_limit,
                                     download_mode_limit, method,
                                     profileMatches, reg, io)
         IN
         /\ previous_limit' = r.previous_limit
         /\ reg' = r.reg
         /\ disturbed' = (disturbed \/ IoFault(r.err))
         /\ running' = AfterCommand(r.err)
         /\ last' = [NoStep EXCEPT !.op = "UpdateDownloadMode",
                       !.arbitrated = ~IsEmpty(download_handles),
                       !.issued = r.issued, !.err = r.err]
    /\ channel' = Recv(channel).rest
    /\ UNCHANGED <<download_handles, configVars, senders, watcherVars, profileMatches,
                   idleValue, refBalance, tokBalance>>
    /\ UNCHANGED <<coalescerVars, supervisorVars, driverVars,
                   serverVars>>

\* run() receives ListDownloadModeHandles(reply): the reply is a clone of
\* the map
RecvListDownloadModeHandles ==
    /\ running
    /\ channel # <<>>
    /\ Recv(channel).message.cmd = "ListDownloadModeHandles"
    /\ last' = [NoStep EXCEPT !.op = "ListDownloadModeHandles",
                  !.arbitrated = ~IsEmpty(download_handles),
                  !.reply = download_handles]
    /\ running' = AfterCommand("none")
    /\ channel' = Recv(channel).rest
    /\ UNCHANGED <<download_handles, previous_limit, configVars, senders, watcherVars,
                   profileMatches, reg, disturbed, idleValue,
                   refBalance, tokBalance>>
    /\ UNCHANGED <<coalescerVars, supervisorVars, driverVars,
                   serverVars>>

\* run(), download_set.join_next() yields the identifier of a finished watcher
RunJoinNext(w) ==
    /\ running
    /\ wstate[w] = "finished"
    /\ \E io \in IoOutcomes :
         LET identifier == wkey[w]
             r == JoinNext(download_handles, previous_limit,
                           download_mode_limit, method, profileMatches, reg,
                           identifier, io)
         IN
         /\ download_handles' = r.handles
         /\ previous_limit' = r.previous_limit
         /\ reg' = r.reg
         /\ disturbed' = (disturbed \/ IoFault(r.err))
         /\ refBalance' = [refBalance EXCEPT ![identifier] = @ - 1]
         /\ tokBalance' = [tokBalance EXCEPT ![identifier] = @ - 1]
         /\ last' = [NoStep EXCEPT !.op = "JoinNext",
                       !.identifier = identifier,
                       !.arbitrated = ~IsEmpty(download_handles),
                       !.issued = r.issued, !.err = r.err]
    /\ wstate' = [wstate EXCEPT ![w] = "reaped"]
    /\ wkey' = [wkey EXCEPT ![w] = ""]
    /\ UNCHANGED <<channel, configVars, runVars, profileMatches, idleValue>>
    /\ UNCHANGED <<coalescerVars, supervisorVars, driverVars,
                   serverVars>>

\* every Sender of the arbiter's channel is dropped
DropSenders ==
    /\ senders
    /\ senders' = FALSE
    /\ last' = NoStep
    /\ UNCHANGED <<channel, download_handles, previous_limit, configVars,
                   watcherVars, running, profileMatches, reg, historyVars>>
    /\ UNCHANGED <<coalescerVars, supervisorVars, driverVars,
                   serverVars>>

\* run(), channel.recv() yields None, the channel being closed and empty:
\* bail!("TDP manager service channel broke")
RecvNone ==
    /\ running
    /\ ~senders
    /\ channel = <<>>
    /\ running' = FALSE
    /\ last' = [NoStep EXCEPT !.op = "RecvNone", !.err = "channel broke"]
    /\ UNCHANGED <<channel, download_handles, previous_limit, configVars,
                   watcherVars, senders, profileMatches, reg, historyVars>>
    /\ UNCHANGED <<coalescerVars, supervisorVars, driverVars,
                   serverVars>>

NextArbiter ==
    \/ \E limit \in RequestedLimits : SendSetTdpLimit(limit)
    \/ \E identifier \in Identifiers : SendEnterDownloadMode(identifier)
    \/ SendListDownloadModeHandles
    \/ SetPerformanceProfile
    \/ \E w \in WatcherIds : CloseToken(w)
    \/ \E w \in WatcherIds : WaitOnHandle(w)
    \/ \E w \in WatcherIds : WaitOnHandleError(w)
    \/ RecvSetTdpLimit
    \/ RecvEnterDownloadMode
    \/ RecvUpdateDownloadMode
    \/ RecvListDownloadModeHandles
    \/ \E w \in WatcherIds : RunJoinNext(w)

SpecArbiter ==
    InitArbiter /\ [][NextArbiter]_vars

\* a variant of the cancellation that writes the cached previous limit back
CancelService_Restore ==
    /\ running
    /\ running' = FALSE
    /\ reg' = IF previous_limit # NoLimit THEN ToRaw(method, previous_limit)
              ELSE reg
    /\ previous_limit' = NoLimit
    /\ last' = [NoStep EXCEPT !.op = "Cancelled"]
    /\ UNCHANGED <<channel, download_handles, configVars,
                   watcherVars, senders, profileMatches, historyVars>>
    /\ UNCHANGED <<coalescerVars, supervisorVars, driverVars,
                   serverVars>>

\* Service::start, the token of the service is cancelled while run() waits:
\* the future of run() is dropped
CancelService ==
    /\ running
    /\ running' = FALSE
    /\ last' = [NoStep EXCEPT !.op = "Cancelled"]
    /\ UNCHANGED <<channel, download_handles, previous_limit, configVars,
                   watcherVars, senders, profileMatches, reg, historyVars>>
    /\ UNCHANGED <<coalescerVars, supervisorVars, driverVars,
                   serverVars>>

\* the arbiter with the closure of its channel and its cancellation
NextArbiterRun ==
    \/ NextArbiter
    \/ DropSenders
    \/ RecvNone
    \/ CancelService

SpecArbiterRun ==
    InitArbiter /\ [][NextArbiterRun]_vars

\* the arbiter with a channel that holds more than one command
InitArbiterFifo ==
    /\ \E m \in Methods, dml \in {NoLimit, DownloadModeLimit} :
         TdpManagerServiceNew(m, dml)
    /\ capacity = MaxQueue
    /\ SysfsWriterQueueNew
    /\ DaemonNew(1)
    /\ DriverIdle
    /\ ServerIdle

SpecArbiterFifo ==
    InitArbiterFifo /\ [][NextArbiter]_vars

\* The arbiter under the scheduling the runtime gives it: a watcher whose
\* pipe is closed is polled and finishes, and the select! of run() takes a
\* branch that stays ready (a pending command, a finished watcher). Clients
\* are under no obligation: a token may be held forever.
\* the arbiter on a driver with an override configured whose limit may read
\* 0 at the start (the interface is broken)
InitArbiterZero ==
    /\ \E m \in Methods, l \in InitialLimits \cup {NoLimit} :
         /\ method = m
         /\ reg = ToRaw(m, l)
         /\ idleValue = l
    /\ channel = <<>>
    /\ download_handles = EmptyMap
    /\ previous_limit = NoLimit
    /\ download_mode_limit = DownloadModeLimit
    /\ wstate = [w \in WatcherIds |-> "none"]
    /\ wkey = [w \in WatcherIds |-> ""]
    /\ senders = TRUE
    /\ running = TRUE
    /\ profileMatches = TRUE
    /\ last = NoStep
    /\ disturbed = FALSE
    /\ refBalance = [k \in Identifiers |-> 0]
    /\ tokBalance = [k \in Identifiers |-> 0]
    /\ capacity = MaxChannel
    /\ SysfsWriterQueueNew
    /\ DaemonNew(1)
    /\ DriverIdle
    /\ ServerIdle

SpecArbiterZero ==
    InitArbiterZero /\ [][NextArbiter]_vars

FairnessArbiter ==
    /\ \A w \in WatcherIds : WF_vars(WaitOnHandle(w))
    /\ \A w \in WatcherIds : WF_vars(RunJoinNext(w))
    /\ WF_vars(RecvSetTdpLimit)
    /\ WF_vars(RecvEnterDownloadMode)
    /\ WF_vars(RecvUpdateDownloadMode)
    /\ WF_vars(RecvListDownloadModeHandles)

FairSpecArbiter ==
    SpecArbiter /\ FairnessArbiter

(***************************************************************************)
(* Properties of the arbiter                                               *)
(***************************************************************************)
\* the limit the driver reports (get_tdp_limit), in watts
Tdp == FromRaw(method, reg)

Active == IsActive(method, profileMatches)

Count(h, k) == IF k \in DOMAIN h THEN h[k] ELSE 0

\* every command sent and every token closed has been processed
Quiescent ==
    /\ channel = <<>>
    /\ \A w \in WatcherIds : wstate[w] \notin {"closed", "finished"}

\* the conditions C1 is about: an override is configured, the driver has
\* been active and its reads and writes have succeeded so far, and
\* everything sent is processed
Nominal ==
    /\ download_mode_limit # NoLimit
    /\ ~disturbed
    /\ Quiescent

C2_DiscardedIntent ==
    [][ /\ (last'.op = "SetTdpLimit" /\ ~IsEmpty(download_handles)) =>
             /\ last'.arbitrated
             /\ last'.issued = <<>>
             /\ reg' = reg
             /\ previous_limit' = previous_limit
             /\ download_handles' = download_handles
             /\ idleValue' = idleValue
        /\ (/\ ~IsEmpty(download_handles)
            /\ IsEmpty(download_handles')
            /\ ~disturbed') =>
             /\ FromRaw(method, reg') = idleValue'
             /\ idleValue' = idleValue
      ]_vars

\* C2 witness: SetTdpLimit(12) has just been handled under a lease; the
\* driver still holds the override 6 and 15 is still the value to restore.
C2_Witness ==
    /\ last.op = "SetTdpLimit"
    /\ last.arbitrated
    /\ last.limit = 12
    /\ last.issued = <<>>
    /\ ~disturbed
    /\ Tdp = DownloadModeLimit
    /\ previous_limit = 15
    /\ idleValue = 15

\* C3, as stated: ListLeases maps each key to the number of EnterLease(key)
\* calls that returned a token minus the number of releases processed for
\* that key, and a key whose count reached zero is absent.
C3_RefcountTokens ==
    \A k \in Identifiers : Count(download_handles, k) = tokBalance[k]

\* a release step: join_next has yielded the identifier of a watcher
ReleaseStep ==
    last'.op = "JoinNext"

\* C3, amended: ListLeases maps each key to the number of EnterLease(key)
\* calls that registered a reference (every call that got past creating the
\* pipe, whether or not it then returned a token) minus the number of
\* releases processed for that key; a key is present only with a count of
\* at least 1; a release lowers the count of its key by one and changes the
\* count of no other key.
C3_Refcount ==
    /\ [](\A k \in Identifiers :
            /\ Count(download_handles, k) = refBalance[k]
            /\ k \in DOMAIN download_handles => download_handles[k] >= 1)
    /\ [](last.op = "ListDownloadModeHandles" =>
            \A k \in Identifiers : Count(last.reply, k) = refBalance[k])
    /\ [][ReleaseStep =>
            \A k \in Identifiers :
              Count(download_handles', k) =
                IF k = last'.identifier
                THEN Count(download_handles, k) - 1
                ELSE Count(download_handles, k)]_vars

\* C3 witness: after two EnterLease("a") and one release, ListLeases has
\* just answered {"a": 1}, "b" being absent.
C3_Witness ==
    /\ last.op = "ListDownloadModeHandles"
    /\ DOMAIN last.reply = {"a"}
    /\ last.reply["a"] = 1
    /\ \E w \in WatcherIds : wstate[w] = "reaped"
    /\ \E w \in WatcherIds : wstate[w] = "open" /\ wkey[w] = "a"

\* watchers whose lease reference is still counted, per key
Unreleased(k) ==
    {w \in WatcherIds : wstate[w] \in {"open", "closed", "finished"} /\ wkey[w] = k}

\* C4: a lease reference whose token is closed (by its holder, by the
\* holder's exit, or because the reply was never delivered) is eventually
\* released; the lease table counts exactly the references not yet released,
\* so that it is empty once every token is closed and reaped; and the
\* release that empties the table, the driver being active and its I/O
\* succeeding, writes the cached previous limit back and clears the cache.
C4_Reclamation ==
    /\ \A w \in WatcherIds : (wstate[w] = "closed") ~> (wstate[w] = "reaped")
    /\ [](\A k \in Identifiers :
            Count(download_handles, k) = Cardinality(Unreleased(k)))
    /\ [][(/\ ReleaseStep
           /\ ~IsEmpty(download_handles)
           /\ IsEmpty(download_handles')
           /\ Active
           /\ download_mode_limit # NoLimit
           /\ previous_limit # NoLimit
           /\ last'.err = "none") =>
             /\ last'.issued = <<previous_limit>>
             /\ FromRaw(method, reg') = previous_limit
             /\ previous_limit' = NoLimit]_vars

\* C4 witness: every watcher spawned has been reaped, the last release has
\* just emptied the lease table and written the previous limit 15 back.
C4_Witness ==
    /\ last.op = "JoinNext"
    /\ last.issued = <<15>>
    /\ last.err = "none"
    /\ \A w \in WatcherIds : wstate[w] \in {"none", "reaped"}
    /\ \E w \in WatcherIds : wstate[w] = "reaped"
    /\ IsEmpty(download_handles)
    /\ previous_limit = NoLimit
    /\ Tdp = 15

(***************************************************************************)
(* SysfsWriterQueue and SysfsWriterService: state machine                  *)
(***************************************************************************)
Request(path, contents) ==
    [path |-> path, contents |-> contents, returned |-> FALSE,
     outcomes |-> <<>>, written |-> FALSE]

InitCoalescer ==
    /\ SysfsWriterQueueNew
    /\ TdpManagerServiceNew("AmdgpuHwmon", NoLimit)
    /\ capacity = MaxChannel
    /\ DaemonNew(1)
    /\ DriverIdle
    /\ ServerIdle

\* SysfsWriterQueue::send up to the release of the lock: the entry is
\* inserted and the sender of the entry it replaces is told Superseded
SendInsert(path, contents) ==
    /\ Len(requests) < MaxSends
    /\ LET r == Len(requests) + 1
           q == QueueInsert(values, path, r)
       IN
       /\ values' = q.values
       /\ requests' = Append(Deliver(requests, q.old, "Superseded"),
                             Request(path, contents))
    /\ UNCHANGED <<notify, worker, taken, file>>
    /\ UNCHANGED <<arbiterVars, supervisorVars, driverVars,
                   serverVars, bindingVars>>

\* SysfsWriterQueue::send, notify.notify_one() and the return of the
\* receiver: a worker waiting in notified() is woken, otherwise the permit
\* is stored (Notify holds at most one)
SendNotify(r) ==
    /\ r \in 1..Len(requests)
    /\ ~requests[r].returned
    /\ IF worker = "waiting"
       THEN worker' = "woken" /\ notify' = notify
       ELSE worker' = worker /\ notify' = TRUE
    /\ requests' = [requests EXCEPT ![r].returned = TRUE]
    /\ UNCHANGED <<values, taken, file>>
    /\ UNCHANGED <<arbiterVars, supervisorVars, driverVars,
                   serverVars, bindingVars>>

\* SysfsWriterQueue::recv, notified().await is polled: a stored permit is
\* consumed, otherwise the worker waits
RecvNotified ==
    /\ worker = "recv"
    /\ IF notify
       THEN worker' = "woken" /\ notify' = FALSE
       ELSE worker' = "waiting" /\ notify' = notify
    /\ UNCHANGED <<values, taken, file, requests>>
    /\ UNCHANGED <<arbiterVars, supervisorVars, driverVars,
                   serverVars, bindingVars>>

\* SysfsWriterQueue::recv after notified(): an arbitrary entry is removed
\* under the lock, or None is returned and run() calls recv() again
RecvRemove ==
    /\ worker = "woken"
    /\ \/ /\ Keys(values) = {}
          /\ worker' = "recv"
          /\ UNCHANGED <<values, taken>>
       \/ \E path \in Keys(values) :
            LET q == QueueRemove(values, path) IN
            /\ values' = q.values
            /\ taken' = q.taken
            /\ worker' = "write"
    /\ UNCHANGED <<notify, file, requests>>
    /\ UNCHANGED <<arbiterVars, supervisorVars, driverVars,
                   serverVars, bindingVars>>

\* SysfsWriterService::run: write_synced(path, &contents).await runs to its
\* end, the worker holding its result
RunWrite ==
    /\ worker = "write"
    /\ \E io \in {"ok", "fail", "syncfail"} :
         LET w == WriteSynced(file, requests[taken].path,
                              requests[taken].contents, io)
         IN
         /\ file' = w.file
         /\ worker' = IF w.ok THEN "writtenOk" ELSE "writtenErr"
    /\ requests' = [requests EXCEPT ![taken].written = TRUE]
    /\ UNCHANGED <<values, notify, taken>>
    /\ UNCHANGED <<arbiterVars, supervisorVars, driverVars,
                   serverVars, bindingVars>>

\* a variant of run() that sends Written(Ok) when it has taken the entry,
\* before the write
RunDeliver_BeforeWrite ==
    /\ worker = "write"
    /\ requests' = Deliver(requests, taken, "WrittenOk")
    /\ taken' = 0
    /\ worker' = "recv"
    /\ UNCHANGED <<values, notify, file>>
    /\ UNCHANGED <<arbiterVars, supervisorVars, driverVars,
                   serverVars, bindingVars>>

\* SysfsWriterService::run: Written(res) is sent to the request's receiver
\* and the loop calls recv() again
RunDeliver ==
    /\ worker \in {"writtenOk", "writtenErr"}
    /\ requests' = Deliver(requests, taken,
                           IF worker = "writtenOk" THEN "WrittenOk"
                           ELSE "WrittenErr")
    /\ taken' = 0
    /\ worker' = "recv"
    /\ UNCHANGED <<values, notify, file>>
    /\ UNCHANGED <<arbiterVars, supervisorVars, driverVars,
                   serverVars, bindingVars>>

NextCoalescer ==
    \/ \E path \in Paths, contents \in Payloads : SendInsert(path, contents)
    \/ \E r \in RequestIds : SendNotify(r)
    \/ RecvNotified
    \/ RecvRemove
    \/ RunWrite
    \/ RunDeliver

SpecCoalescer ==
    InitCoalescer /\ [][NextCoalescer]_vars

(***************************************************************************)
(* Properties of the coalescer                                             *)
(***************************************************************************)
Sent == 1..Len(requests)

\* the last request sent for a path, 0 if there is none
LastFor(path) ==
    IF \E r \in Sent : requests[r].path = path
    THEN CHOOSE r \in Sent :
           /\ requests[r].path = path
           /\ \A q \in Sent : requests[q].path = path => q <= r
    ELSE 0

\* nothing is pending in the map and no write is in progress
Drained ==
    Keys(values) = {} /\ taken = 0

\* a send for the path of r replaces r's pending entry
Replaced(r) ==
    /\ values[requests[r].path] = r
    /\ values'[requests[r].path] \notin {0, r}

\* the part of C5 about the requests: a request replaced in the map is told
\* Superseded in the same step and its payload is never written; a request
\* the worker removed and wrote is told Written when the worker is done
\* with it
C5_Requests ==
    /\ [][\A r \in Sent : Replaced(r) =>
            requests'[r].outcomes = <<"Superseded">>]_vars
    /\ [](\A r \in Sent :
            /\ "Superseded" \in {requests[r].outcomes[n] :
                                   n \in 1..Len(requests[r].outcomes)} =>
                 ~requests[r].written /\ taken # r
            /\ (requests[r].written /\ taken # r) =>
                 requests[r].outcomes \in {<<"WrittenOk">>, <<"WrittenErr">>})

C6_Liveness ==
    (/\ worker = "waiting"
     /\ \A r \in Sent : requests[r].returned) =>
      \A r \in Sent : requests[r].outcomes # <<>>

\* C7: the queue holds at most one pending request per path, and a request
\* without an outcome is exactly one that is in the queue or being written;
\* a request gets at most one outcome, Superseded without having been
\* written or Written after having been written, and an outcome never
\* changes.
C7_OneOutcome ==
    /\ [](\A r \in Sent :
            /\ Len(requests[r].outcomes) <= 1
            /\ requests[r].outcomes = <<>> <=>
                 (values[requests[r].path] = r \/ taken = r)
            /\ requests[r].outcomes = <<"Superseded">> => ~requests[r].written
            /\ requests[r].outcomes \in {<<"WrittenOk">>, <<"WrittenErr">>} =>
                 requests[r].written)
    /\ [](\A path \in Paths :
            Cardinality({r \in Sent : /\ requests[r].path = path
                                      /\ requests[r].outcomes = <<>>
                                      /\ taken # r}) <= 1)
    /\ [][\A r \in Sent :
            requests[r].outcomes # <<>> =>
              requests'[r].outcomes = requests[r].outcomes]_vars

\* C7 witness: three sends for one path: the first was removed and written
\* while the second was pending, the second was replaced by the third.
C7_Witness ==
    /\ Len(requests) = 3
    /\ \A r \in Sent : requests[r].path = "p1"
    /\ requests[1].outcomes \in {<<"WrittenOk">>, <<"WrittenErr">>}
    /\ requests[2].outcomes = <<"Superseded">>
    /\ requests[3].outcomes = <<>>
    /\ values["p1"] = 3

(***************************************************************************)
(* Daemon::run: state machine                                              *)
(***************************************************************************)
InitSupervisor ==
    /\ \E n \in 0..MaxServices : DaemonNew(n)
    /\ TdpManagerServiceNew("AmdgpuHwmon", NoLimit)
    /\ capacity = MaxChannel
    /\ SysfsWriterQueueNew
    /\ DriverIdle
    /\ ServerIdle

Finished == {"ok", "err"}

\* tasks of the join set that join_next has not yielded yet
InJoinSet == {i \in TaskIds : services[i] \in {"running"} \cup Finished}

\* slots of the join set no add_service has used yet
FreeSlots == {i \in 1..MaxServices : services[i] = "absent"}

\* a variant of the shutdown that forgets to cancel the root token
Cancel_Forgotten(t) ==
    t

\* self.token.cancel()
Cancel(t) ==
    TRUE

\* a variant of the draining match that keeps an error already held
DrainFold_KeepFirst(r, i, outcome) ==
    IF outcome = "err" /\ r = Ok THEN TaskErr(i) ELSE r

\* the body of the draining loop: res = match service_res { Ok(Err(e)) =>
\* Err(e), Err(e) => Err(e.into()), _ => continue }
DrainFold(r, i, outcome) ==
    IF outcome = "err" THEN TaskErr(i) ELSE r

\* the event loop is left with result r: `break r`, then token.cancel(),
\* which reaches every child token
Break(r, why) ==
    /\ res' = r
    /\ cause' = why
    /\ token' = Cancel(token)
    /\ handles' = IF Cancel(token) THEN Cascade(handles) ELSE handles
    /\ daemon' = "drain"

\* the select! arm returned Ok(()): the loop goes round
Continue ==
    UNCHANGED <<res, cause, token, daemon>>

\* the join arm of select!: Ok(Ok(())) => Ok(()), Ok(Err(e)) => Err(e),
\* then `if res.is_err() { break res }`
JoinArm(i, outcome) ==
    IF outcome = "err"
    THEN Break(TaskErr(i), "task")
    ELSE Continue /\ UNCHANGED handles

\* a variant of the quit arm that shuts down as SIGTERM does
QuitArm_Graceful ==
    Break(Ok, "SIGQUIT")

\* the quit arm of select!: Err(anyhow!("Got SIGQUIT")), then
\* `if res.is_err() { break res }`
QuitArm ==
    Break(Err("SIGQUIT"), "SIGQUIT")

\* the calls of the sighup arm, in order: notify(RELOADING=1) unless
\* clock_gettime failed, read_config, context.reload if the configuration
\* was read, notify(READY=1)
HangupTrace(clock, outcome) ==
    (IF clock = "ok" THEN <<"RELOADING=1">> ELSE <<>>)
      \o <<"read_config">>
      \o (IF outcome = "read_config err" THEN <<>> ELSE <<"reload">>)
      \o <<"READY=1">>

\* a variant of run() that checks for services only after the start hook
StartTrace_LateEnsure(empty, outcome) ==
    IF outcome = "read_state err" THEN <<"read_state">>
    ELSE IF outcome = "read_config err" THEN <<"read_state", "read_config">>
    ELSE <<"read_state", "read_config", "start">>

\* the calls of run() before the event loop, in order: ensure!, read_state,
\* read_config, context.start, each returning early on failure
StartTrace(empty, outcome) ==
    IF empty THEN <<>>
    ELSE IF outcome = "read_state err" THEN <<"read_state">>
    ELSE IF outcome = "read_config err" THEN <<"read_state", "read_config">>
    ELSE <<"read_state", "read_config", "start">>

\* a supervised task's run returns by itself
TaskReturns(i, outcome) ==
    /\ services[i] = "running"
    /\ handles[i] # "cancelled"
    /\ services' = [services EXCEPT ![i] = outcome]
    /\ UNCHANGED <<token, handles, ds_inhibit, daemonChannel, signals, daemon,
                   res, cause, found, trace>>
    /\ UNCHANGED <<arbiterVars, coalescerVars, driverVars,
                   serverVars>>

\* Service::start: the task observes the cancellation of its token at its
\* next suspension point and exits; its shutdown may still fail
TaskCancelled(i, outcome) ==
    /\ services[i] = "running"
    /\ handles[i] = "cancelled"
    /\ services' = [services EXCEPT ![i] = outcome]
    /\ UNCHANGED <<token, handles, ds_inhibit, daemonChannel, signals, daemon,
                   res, cause, found, trace>>
    /\ UNCHANGED <<arbiterVars, coalescerVars, driverVars,
                   serverVars>>

\* a signal is delivered to the process and reaches the listeners made at
\* the top of the current iteration (signal(..) three times; ctrl_c() in
\* the select!)
SignalArrives(sig) ==
    /\ daemon \in {"loop", "sending"}
    /\ sig \notin signals
    /\ signals' = signals \cup {sig}
    /\ UNCHANGED <<services, token, handles, ds_inhibit, daemonChannel, daemon,
                   res, cause, found, trace>>
    /\ UNCHANGED <<arbiterVars, coalescerVars, driverVars,
                   serverVars>>

\* a holder of the Sender sends a DaemonCommand
SendDaemonCommand(cmd) ==
    /\ daemon \in {"start", "loop", "sending"}
    /\ Len(daemonChannel) < MaxMessages
    /\ daemonChannel' = Append(daemonChannel, cmd)
    /\ UNCHANGED <<services, token, handles, ds_inhibit, signals, daemon,
                   res, cause, found, trace>>
    /\ UNCHANGED <<arbiterVars, coalescerVars, driverVars,
                   serverVars>>

\* run() up to the event loop: the ensure!, read_state, read_config and
\* context.start return early on failure; RootContext::start ends with
\* reload_ds_inhibit, which adds the inhibitor when the state enables it;
\* then the ready task is spawned
RunStart(outcome, enabled) ==
    /\ daemon = "start"
    /\ enabled => FreeSlots # {}
    /\ LET empty == \A i \in TaskIds : services[i] = "absent" IN
       /\ trace' = StartTrace(empty, outcome)
       /\ IF empty
          THEN /\ daemon' = "returned"
               /\ res' = Err("no services")
               /\ UNCHANGED <<services, handles, ds_inhibit>>
          ELSE IF outcome # "ok"
          THEN /\ daemon' = "returned"
               /\ res' = Err(outcome)
               /\ UNCHANGED <<services, handles, ds_inhibit>>
          ELSE /\ daemon' = "loop"
               /\ res' = res
               /\ IF enabled
                  THEN LET i == Min(FreeSlots)
                           a == AddService(services, handles, token, i) IN
                       /\ services' = [a.services EXCEPT ![ReadyTask] = "running"]
                       /\ handles' = a.handles
                       /\ ds_inhibit' = i
                  ELSE /\ services' = [services EXCEPT ![ReadyTask] = "running"]
                       /\ UNCHANGED <<handles, ds_inhibit>>
    /\ UNCHANGED <<token, daemonChannel, signals, cause, found>>
    /\ UNCHANGED <<arbiterVars, coalescerVars, driverVars,
                   serverVars>>

\* select!, services.join_next() yields the result of task i
LoopJoinNext(i) ==
    /\ daemon = "loop"
    /\ services[i] \in Finished
    /\ services' = [services EXCEPT ![i] = "joined"]
    /\ JoinArm(i, services[i])
    /\ found' = IF services[i] = "err" THEN Append(found, i) ELSE found
    /\ trace' = <<>>
    /\ signals' = {}
    /\ UNCHANGED <<ds_inhibit, daemonChannel>>
    /\ UNCHANGED <<arbiterVars, coalescerVars, driverVars,
                   serverVars>>

\* select!, services.join_next() yields None for an empty join set and
\* e.unwrap() panics
LoopJoinNextNone ==
    /\ daemon = "loop"
    /\ InJoinSet = {}
    /\ daemon' = "panicked"
    /\ UNCHANGED <<services, token, handles, ds_inhibit, daemonChannel,
                   signals, res, cause, found, trace>>
    /\ UNCHANGED <<arbiterVars, coalescerVars, driverVars,
                   serverVars>>

\* select!, ctrl_c() or sigterm.recv(): break Ok(())
LoopTerminate(sig) ==
    /\ daemon = "loop"
    /\ sig \in signals \cap {"SIGINT", "SIGTERM"}
    /\ signals' = {}
    /\ Break(Ok, sig)
    /\ trace' = <<>>
    /\ UNCHANGED <<services, ds_inhibit, daemonChannel, found>>
    /\ UNCHANGED <<arbiterVars, coalescerVars, driverVars,
                   serverVars>>

\* select!, sighup.recv(): a configuration that cannot be read is logged,
\* the result of context.reload is the result of the arm
LoopHangup(clock, outcome) ==
    /\ daemon = "loop"
    /\ "SIGHUP" \in signals
    /\ signals' = {}
    /\ trace' = HangupTrace(clock, outcome)
    /\ IF outcome = "reload err"
       THEN Break(Err("reload"), "reload")
       ELSE Continue /\ UNCHANGED handles
    /\ UNCHANGED <<services, ds_inhibit, daemonChannel, found>>
    /\ UNCHANGED <<arbiterVars, coalescerVars, driverVars,
                   serverVars>>

\* select!, sigquit.recv(): Err("Got SIGQUIT")
LoopQuit ==
    /\ daemon = "loop"
    /\ "SIGQUIT" \in signals
    /\ signals' = {}
    /\ QuitArm
    /\ trace' = <<>>
    /\ UNCHANGED <<services, ds_inhibit, daemonChannel, found>>
    /\ UNCHANGED <<arbiterVars, coalescerVars, driverVars,
                   serverVars>>

\* handle_message, DaemonCommand::ReadConfig: a configuration that cannot be
\* read is logged, the result of context.reload is the result of the arm
RecvReadConfig(outcome) ==
    /\ outcome \in {"ok", "read_config err", "reload err"}
    /\ daemonChannel' = Tail(daemonChannel)
    /\ trace' = IF outcome = "read_config err" THEN <<"read_config">>
                ELSE <<"read_config", "reload">>
    /\ IF outcome = "reload err"
       THEN Break(Err("reload"), "ReadConfig")
       ELSE Continue /\ UNCHANGED handles
    /\ UNCHANGED <<services, ds_inhibit>>

\* handle_message, DaemonCommand::WriteState: the result of write_state
RecvWriteState(outcome) ==
    /\ outcome \in {"ok", "err"}
    /\ daemonChannel' = Tail(daemonChannel)
    /\ trace' = <<"write_state">>
    /\ IF outcome = "err"
       THEN Break(Err("WriteState"), "command")
       ELSE Continue /\ UNCHANGED handles
    /\ UNCHANGED <<services, ds_inhibit>>

\* handle_message, DaemonCommand::ContextCommand, RootContext::handle_command:
\* GetDsInhibit replies; SetDsInhibit(enable) runs reload_ds_inhibit, which
\* cancels the handle it holds or adds the inhibitor (Inhibitor::init may
\* fail), and then comes to channel.send(WriteState) on the daemon's own
\* channel
RecvContextCommand(outcome) ==
    /\ outcome \in {"get", "enable", "disable", "err"}
    /\ outcome = "enable" /\ ds_inhibit = 0 => FreeSlots # {}
    /\ trace' = <<"handle_command">>
    /\ IF outcome = "get"
       THEN /\ daemonChannel' = Tail(daemonChannel)
            /\ Continue
            /\ UNCHANGED <<services, handles, ds_inhibit>>
       ELSE IF outcome = "err"
       THEN /\ ds_inhibit = 0
            /\ daemonChannel' = Tail(daemonChannel)
            /\ Break(Err("ContextCommand"), "command")
            /\ UNCHANGED <<services, ds_inhibit>>
       ELSE /\ daemonChannel' = Tail(daemonChannel)
            /\ daemon' = "sending"
            /\ UNCHANGED <<res, cause, token>>
            /\ IF outcome = "disable" /\ ds_inhibit # 0
               THEN /\ handles' = CancelChild(handles, ds_inhibit)
                    /\ ds_inhibit' = 0
                    /\ UNCHANGED services
               ELSE IF outcome = "enable" /\ ds_inhibit = 0
               THEN LET i == Min(FreeSlots)
                        a == AddService(services, handles, token, i) IN
                    /\ services' = a.services
                    /\ handles' = a.handles
                    /\ ds_inhibit' = i
               ELSE UNCHANGED <<services, handles, ds_inhibit>>

\* select!, channel.recv() and handle_message
LoopRecv(outcome) ==
    /\ daemon = "loop"
    /\ daemonChannel # <<>>
    /\ CASE Head(daemonChannel) = "ReadConfig" -> RecvReadConfig(outcome)
         [] Head(daemonChannel) = "WriteState" -> RecvWriteState(outcome)
         [] Head(daemonChannel) = "ContextCommand" ->
              RecvContextCommand(outcome)
    /\ signals' = IF daemon' = "sending" THEN signals ELSE {}
    /\ UNCHANGED found
    /\ UNCHANGED <<arbiterVars, coalescerVars, driverVars,
                   serverVars>>

\* handle_command, self.channel.send(DaemonCommand::WriteState).await?: the
\* send returns once the bounded channel has room; the arm returns Ok(())
\* and the loop goes round
HandleCommandSend ==
    /\ daemon = "sending"
    /\ Len(daemonChannel) < MaxMessages
    /\ daemonChannel' = Append(daemonChannel, "WriteState")
    /\ daemon' = "loop"
    /\ signals' = {}
    /\ trace' = <<"handle_command">>
    /\ UNCHANGED <<services, token, handles, ds_inhibit, res, cause, found>>
    /\ UNCHANGED <<arbiterVars, coalescerVars, driverVars,
                   serverVars>>

\* select!, channel.recv() yields None, every Sender having been dropped
\* with nothing left in the channel (a context that keeps no Sender of its
\* own): Err("All senders have been closed")
LoopRecvNone ==
    /\ daemon = "loop"
    /\ daemonChannel = <<>>
    /\ Break(Err("closed"), "closed")
    /\ trace' = <<>>
    /\ signals' = {}
    /\ UNCHANGED <<services, ds_inhibit, daemonChannel, found>>
    /\ UNCHANGED <<arbiterVars, coalescerVars, driverVars,
                   serverVars>>

\* the draining loop, services.join_next() yields the result of task i
DrainJoinNext(i) ==
    /\ daemon = "drain"
    /\ services[i] \in Finished
    /\ services' = [services EXCEPT ![i] = "joined"]
    /\ res' = DrainFold(res, i, services[i])
    /\ found' = IF services[i] = "err" THEN Append(found, i) ELSE found
    /\ UNCHANGED <<token, handles, ds_inhibit, daemonChannel, signals, daemon,
                   cause, trace>>
    /\ UNCHANGED <<arbiterVars, coalescerVars, driverVars,
                   serverVars>>

\* a variant of the draining loop that stops at the first task it has joined
DrainDone_FirstJoin ==
    /\ daemon = "drain"
    /\ \E i \in TaskIds : services[i] = "joined"
    /\ daemon' = "returned"
    /\ UNCHANGED <<services, token, handles, ds_inhibit, daemonChannel,
                   signals, res, cause, found, trace>>
    /\ UNCHANGED <<arbiterVars, coalescerVars, driverVars,
                   serverVars>>

\* the draining loop, join_next() yields None: run() returns res
DrainDone ==
    /\ daemon = "drain"
    /\ InJoinSet = {}
    /\ daemon' = "returned"
    /\ UNCHANGED <<services, token, handles, ds_inhibit, daemonChannel,
                   signals, res, cause, found, trace>>
    /\ UNCHANGED <<arbiterVars, coalescerVars, driverVars,
                   serverVars>>

StartOutcomes == {"ok", "read_state err", "read_config err", "start err"}
ReloadOutcomes == {"ok", "read_config err", "reload err"}
RecvOutcomes == ReloadOutcomes \cup {"err", "get", "enable", "disable"}

NextSupervisor ==
    \/ \E i \in TaskIds, outcome \in Finished : TaskReturns(i, outcome)
    \/ \E i \in TaskIds, outcome \in Finished : TaskCancelled(i, outcome)
    \/ \E sig \in Signals : SignalArrives(sig)
    \/ \E cmd \in DaemonCommands : SendDaemonCommand(cmd)
    \/ \E outcome \in StartOutcomes, enabled \in BOOLEAN :
         RunStart(outcome, enabled)
    \/ \E i \in TaskIds : LoopJoinNext(i)
    \/ LoopJoinNextNone
    \/ \E sig \in Signals : LoopTerminate(sig)
    \/ \E clock \in {"ok", "err"}, outcome \in ReloadOutcomes :
         LoopHangup(clock, outcome)
    \/ LoopQuit
    \/ \E outcome \in RecvOutcomes : LoopRecv(outcome)
    \/ HandleCommandSend
    \/ LoopRecvNone
    \/ \E i \in TaskIds : DrainJoinNext(i)
    \/ DrainDone

SpecSupervisor ==
    InitSupervisor /\ [][NextSupervisor]_vars

(***************************************************************************)
(* Properties of the supervisor                                            *)
(***************************************************************************)
AllJoined ==
    \A i \in TaskIds : services[i] \in {"absent", "joined"}

\* C8: when the event loop has found the error of a supervised task (the
\* first one found, which triggers the shutdown), run() returns that error,
\* and returns only with the root token cancelled and every task joined.
C8_FailFast ==
    (daemon = "returned" /\ cause = "task") =>
      /\ res = TaskErr(Head(found))
      /\ token
      /\ AllJoined

\* C9: once the event loop has ended with the error of a task, an error
\* found while draining never overwrites the error run() holds.
C9_FirstError ==
    [][(daemon = "drain" /\ cause = "task") => res' = res]_vars

\* C10: the event loop taking SIGINT or SIGTERM cancels the root token and
\* starts draining with Ok; and when run() has returned after such a signal
\* the token is cancelled, every task is joined, and the result is Ok if no
\* task returned an error while being drained (the error of a task
\* otherwise).
C10_GracefulShutdown ==
    /\ [][(daemon = "loop" /\ cause' \in {"SIGINT", "SIGTERM"}) =>
            /\ token'
            /\ daemon' = "drain"
            /\ res' = Ok]_vars
    /\ [](daemon = "returned" /\ cause \in {"SIGINT", "SIGTERM"} =>
            /\ token
            /\ AllJoined
            /\ found = <<>> => res = Ok
            /\ found # <<>> => res.kind = "task")

\* C10 witness: run() has returned Ok after SIGTERM with two services and
\* the ready task cancelled and joined.
C10_Witness ==
    /\ daemon = "returned"
    /\ cause = "SIGTERM"
    /\ res = Ok
    /\ token
    /\ \A i \in TaskIds : services[i] = "joined"

\* the event loop joins a task that returned Ok(())
JoinOk(i) ==
    /\ daemon = "loop"
    /\ services[i] = "ok"
    /\ services'[i] = "joined"

\* C11: a supervised task that completes successfully does not stop the
\* supervisor: the step joining it leaves the root token uncancelled, every
\* child token and every other task as they are and the result untouched,
\* and the event loop goes on: as long as every task joined so far has
\* succeeded, run() stays in its loop unless an event breaks it.
C11_SuccessContinues ==
    /\ [][\A i \in TaskIds : JoinOk(i) =>
            /\ ~token'
            /\ handles' = handles
            /\ res' = res
            /\ daemon' = "loop"
            /\ \A j \in TaskIds \ {i} : services'[j] = services[j]]_vars
    /\ [][(daemon = "loop" /\ found = <<>>) =>
            daemon' \in {"loop", "sending", "drain"}]_vars

\* the event loop takes SIGHUP, or receives DaemonCommand::ReadConfig
ReloadBySignal ==
    /\ daemon = "loop"
    /\ "SIGHUP" \in signals
    /\ \E i \in 1..Len(trace') : trace'[i] = "READY=1"

ReloadByCommand ==
    /\ daemon = "loop"
    /\ daemonChannel # <<>>
    /\ Head(daemonChannel) = "ReadConfig"
    /\ daemonChannel' = Tail(daemonChannel)

\* C12: an error of a configuration reload is not fatal, whether the reload
\* was triggered by SIGHUP or by a ReadConfig command and whether reading
\* the configuration or the context's reload hook failed: the step leaves
\* run() in its event loop, the root token uncancelled, every task and the
\* result as they were.
C12_ReloadNonFatal ==
    [][(ReloadBySignal \/ ReloadByCommand) =>
         /\ daemon' = "loop"
         /\ ~token'
         /\ res' = res
         /\ services' = services
         /\ handles' = handles]_vars

\* the calls of a reload in the order the specification gives them
ReloadOrder == <<"RELOADING=1", "read_config", "reload", "READY=1">>

Rank(name) == CHOOSE i \in 1..Len(ReloadOrder) : ReloadOrder[i] = name

\* C13: a reload by SIGHUP announces RELOADING=1, reads the configuration,
\* calls the context's reload hook and announces READY=1, in this order;
\* the step that announces RELOADING=1 ends with READY=1, before any other
\* event is handled; and the reload cancels no task and restarts none.
C13_ReloadSequence ==
    [][ReloadBySignal =>
         /\ \A i, j \in 1..Len(trace') :
              i < j => Rank(trace'[i]) < Rank(trace'[j])
         /\ trace'[Len(trace')] = "READY=1"
         /\ ~token'
         /\ handles' = handles
         /\ services' = services]_vars

NoServices ==
    \A i \in TaskIds : services[i] = "absent"

\* C14: run() on a supervisor with no registered task fails at once with
\* the no-services error: it reads neither the state nor the configuration,
\* does not call the context's start hook, spawns nothing and never enters
\* the event loop.
C14_NoServicesFails ==
    [][(daemon = "start" /\ daemon' # "start" /\ NoServices) =>
         /\ daemon' = "returned"
         /\ res' = Err("no services")
         /\ trace' = <<>>
         /\ services' = services
         /\ ~token']_vars

\* C14 witness: run() has returned the no-services error without a call.
C14_Witness ==
    /\ daemon = "returned"
    /\ res = Err("no services")
    /\ NoServices
    /\ trace = <<>>

\* C15: SIGQUIT taken by the event loop is a fatal error at once: the step
\* leaves the loop with the error "Got SIGQUIT" and cancels the root token,
\* and from then on run() holds an error; it returns an error, never Ok.
C15_QuitIsFatal ==
    /\ [][(daemon = "loop" /\ "SIGQUIT" \in signals
                           /\ cause' = "SIGQUIT") =>
            /\ daemon' = "drain"
            /\ res' = Err("SIGQUIT")
            /\ token']_vars
    /\ [](cause = "SIGQUIT" => /\ daemon \in {"drain", "returned"}
                               /\ res # Ok)

\* C15 witness: run() has returned the SIGQUIT error after draining a
\* service and the ready task.
C15_Witness ==
    /\ daemon = "returned"
    /\ cause = "SIGQUIT"
    /\ res = Err("SIGQUIT")
    /\ services[1] = "joined"
    /\ services[ReadyTask] = "joined"

(***************************************************************************)
(* TdpLimitManager: state machine of the calls on one driver               *)
(***************************************************************************)
InitDriver ==
    /\ \E m \in Methods, pp \in ConfiguredProfiles, plat \in PlatformProfiles :
         /\ m = "AmdgpuHwmon" => pp = "none"
         /\ DriverNew(m, pp, plat)
    /\ TdpManagerServiceNew("AmdgpuHwmon", NoLimit)
    /\ capacity = MaxChannel
    /\ SysfsWriterQueueNew
    /\ DaemonNew(1)
    /\ ServerIdle

CallRecord(op, limit, io, r) ==
    [op |-> op, limit |-> limit, io |-> io, platform |-> platform_profile,
     ok |-> r.ok, err |-> r.err, value |-> r.value, written |-> r.written,
     before |-> files]

\* manager.set_tdp_limit(limit)
CallSetTdpLimit(limit, io) ==
    /\ LET r == IF manager.method = "AmdgpuHwmon"
                THEN AmdgpuSetTdpLimit(files, limit, io)
                ELSE FirmwareSetTdpLimit(manager.performance_profile,
                                         platform_profile, files, limit, io)
       IN /\ files' = r.files
          /\ call' = CallRecord("set", limit, io, r)
    /\ UNCHANGED <<manager, platform_profile>>
    /\ UNCHANGED <<arbiterVars, coalescerVars, supervisorVars, serverVars>>

\* manager.get_tdp_limit()
CallGetTdpLimit(io) ==
    /\ LET r == IF manager.method = "AmdgpuHwmon"
                THEN AmdgpuGetTdpLimit(files, io)
                ELSE FirmwareGetTdpLimit(manager.performance_profile,
                                         platform_profile, files, io)
       IN /\ files' = r.files
          /\ call' = CallRecord("get", 0, io, r)
    /\ UNCHANGED <<manager, platform_profile>>
    /\ UNCHANGED <<arbiterVars, coalescerVars, supervisorVars, serverVars>>

\* manager.is_active(): the trait's default for the amdgpu hwmon
CallIsActive(io) ==
    /\ LET a == IF manager.method = "AmdgpuHwmon"
                THEN [ok |-> TRUE, value |-> TRUE]
                ELSE FirmwareIsActive(manager.performance_profile,
                                      platform_profile, io)
       IN call' = CallRecord("is_active", 0, io,
                    DriverResult(a.ok, IF a.ok THEN "none" ELSE "io",
                                 IF a.value THEN 1 ELSE 0, files, {}))
    /\ UNCHANGED <<manager, platform_profile, files>>
    /\ UNCHANGED <<arbiterVars, coalescerVars, supervisorVars, serverVars>>

\* the platform profile is changed (set_performance_profile, or the user)
WritePlatformProfile(profile) ==
    /\ platform_profile # "absent"
    /\ profile \notin {"absent", platform_profile}
    /\ platform_profile' = profile
    /\ UNCHANGED <<manager, files, call>>
    /\ UNCHANGED <<arbiterVars, coalescerVars, supervisorVars, serverVars>>

NextDriver ==
    \/ \E limit \in DriverLimits, io \in DriverIoOutcomes :
         CallSetTdpLimit(limit, io)
    \/ \E io \in DriverIoOutcomes : CallGetTdpLimit(io)
    \/ \E io \in DriverIoOutcomes : CallIsActive(io)
    \/ \E profile \in PlatformProfiles : WritePlatformProfile(profile)

SpecDriver ==
    InitDriver /\ [][NextDriver]_vars

NextTdpLimit1 ==
    \/ \E limit \in DriverLimits : SendSetTdpLimit(limit)
    \/ SetPerformanceProfile
    \/ RecvSetTdpLimit
    \/ RecvUpdateDownloadMode

SpecTdpLimit1 ==
    InitArbiter /\ [][NextTdpLimit1]_vars

\* C17: a caller that sets the limit to a value outside the range while no
\* lease is held is told so: when the arbiter has handled such a SetTdpLimit
\* without arbitration, the caller's call has completed with an error.
C17_CallerRejected ==
    (/\ last.op = "SetTdpLimit"
     /\ ~last.arbitrated
     /\ ~InRange(last.limit)) =>
      last.told = "Failure"

\* C18: EnterDownloadMode handled with no download_mode_limit configured
\* yields Ok(None) and changes nothing: the table of leases, the set of
\* watchers, the cached previous limit and the driver's value stay as they
\* are, and no write is issued to the driver.
C18_UnconfiguredNoOp ==
    [][(/\ download_mode_limit = NoLimit
        /\ last'.op = "EnterDownloadMode") =>
         /\ last'.result = "none"
         /\ last'.err = "none"
         /\ last'.issued = <<>>
         /\ download_handles' = download_handles
         /\ wstate' = wstate
         /\ wkey' = wkey
         /\ previous_limit' = previous_limit
         /\ reg' = reg
         /\ refBalance' = refBalance
         /\ tokBalance' = tokBalance]_vars

\* C18 witness: an unconfigured arbiter has answered EnterDownloadMode("a")
\* with None; no lease, no watcher, the driver at its initial value.
C18_Witness ==
    /\ download_mode_limit = NoLimit
    /\ last.op = "EnterDownloadMode"
    /\ last.identifier = "a"
    /\ last.result = "none"
    /\ IsEmpty(download_handles)
    /\ Spawned = {}
    /\ previous_limit = NoLimit
    /\ Tdp = 15

\* tasks registered by add_service
Registered ==
    {i \in 1..MaxServices : services[i] # "absent"}

\* C19: add_service starts the task at once, before run() as well as while
\* it runs, and the token it returns is a child of the root token:
\* cancelling that token alone leaves the root token, every other token,
\* every task and the event loop as they are, and once the root token is
\* cancelled the token of every registered task is cancelled.
C19_ChildHandles ==
    /\ [](daemon = "start" =>
            \A i \in Registered : /\ services[i] \in {"running"} \cup Finished
                                  /\ handles[i] = "child")
    /\ [][\A i \in 1..MaxServices :
            (services[i] = "absent" /\ services'[i] # "absent") =>
              /\ services'[i] = "running"
              /\ handles'[i] = "child"]_vars
    /\ [][\A i \in 1..MaxServices :
            (handles[i] = "child" /\ handles'[i] = "cancelled" /\ ~token') =>
              /\ \A j \in TaskIds \ {i} : handles'[j] = handles[j]
              /\ services' = services
              /\ daemon' \in {"loop", "sending"}]_vars
    /\ [](token => \A i \in Registered : handles[i] = "cancelled")

\* C19 witness: while run() is in its loop the context has cancelled the
\* token of the inhibitor, task 2; the token of task 1 is live, task 1 is
\* running and the root token is not cancelled.
C19_Witness ==
    /\ daemon = "loop"
    /\ ~token
    /\ trace = <<"handle_command">>
    /\ ds_inhibit = 0
    /\ handles[2] = "cancelled"
    /\ handles[1] = "child"
    /\ services[1] = "running"

\* the platform profile read by the last call is not the configured one
Differs ==
    /\ manager.performance_profile # "none"
    /\ call.platform \notin {"absent", manager.performance_profile}

\* C20: the firmware-attribute driver with a configured performance
\* profile: while the platform profile differs from it, is_active is false
\* and get_tdp_limit and set_tdp_limit fail as inactive without writing an
\* attribute; when the profile matches, or none is configured, is_active is
\* true and a set_tdp_limit within the range succeeds and writes the three
\* attributes (no read or write failing).
C20_InactiveDriver ==
    (manager.method = "FirmwareAttribute" /\ call.op # "none") =>
      /\ (Differs /\ call.op = "is_active" /\ call.io.active = "ok") =>
           (call.ok /\ call.value = 0)
      /\ (Differs /\ call.op \in {"get", "set"}) =>
           /\ ~call.ok
           /\ call.io.active = "ok" => call.err = "inactive"
           /\ call.written = {}
           /\ files = call.before
      /\ (~Differs /\ call.op = "is_active" /\ call.io = DriverIoOk) =>
           (call.ok /\ call.value = 1)
      /\ (~Differs /\ call.op = "set" /\ InRange(call.limit)
                   /\ call.io = DriverIoOk) =>
           /\ call.ok
           /\ \A k \in DOMAIN FirmwareFiles :
                files[FirmwareFiles[k]] = call.limit

\* C20 witness: the driver is configured for the profile "custom", the
\* platform profile is "balanced", and set_tdp_limit(10) has just failed as
\* inactive with the three attributes still at their initial value.
C20_Witness ==
    /\ manager = [method |-> "FirmwareAttribute",
                  performance_profile |-> "custom"]
    /\ call.op = "set"
    /\ call.limit = 10
    /\ call.platform = "balanced"
    /\ call.err = "inactive"
    /\ \A k \in DOMAIN FirmwareFiles : files[FirmwareFiles[k]] = MaxLimit

\* C24: between two operations of the arbiter a previous limit is cached
\* exactly when the lease table is not empty: it is set when the table
\* becomes non-empty and cleared when it becomes empty again, so no value
\* cached in one episode is still held in a later one.
C24_CachedIffLeased ==
    (previous_limit # NoLimit) <=> ~IsEmpty(download_handles)

\* ---------------------------------------------------------------------
\* C26: no error of a command ends the loop of the arbiter: run() leaves its
\* loop only in a step that found the channel closed and empty, or that
\* cancelled the service; a step that handled a command or a release,
\* whatever its error, leaves run() in its loop.
C26_ErrorsNotFatal ==
    [][(running /\ ~running') =>
          \/ ~senders /\ channel = <<>> /\ last'.op = "RecvNone"
          \/ last'.op = "Cancelled"]_vars

\* a command failed after a lease was recorded, and run() is still in its loop
\* with that lease in the table
C26_Witness ==
    /\ running
    /\ last.op = "EnterDownloadMode"
    /\ last.err # "none"
    /\ ~IsEmpty(download_handles)

\* ---------------------------------------------------------------------
\* the last operation issued a write to the driver and the write failed
FailedWrite(step) ==
    /\ step.op \in {"EnterDownloadMode", "JoinNext"}
    /\ step.issued # <<>>
    /\ step.err # "none"

\* run() handles an EnterDownloadMode command
EntryStep ==
    /\ channel # <<>>
    /\ Head(channel).cmd = "EnterDownloadMode"
    /\ channel' = Tail(channel)

\* the tokens of key k that their holders have not closed
OpenTokens(k) ==
    {w \in WatcherIds : wstate[w] = "open" /\ wkey[w] = k}

\* C25, as stated: after a failed driver write during lease entry or lease
\* exit each key's refcount equals the number of tokens handed out for that
\* key minus the number of releases processed for it.
C25_TokensAfterFailure ==
    FailedWrite(last) =>
      \A k \in Identifiers : Count(download_handles, k) = tokBalance[k]

\* C25: a failed driver write during lease entry or lease exit leaves run()
\* in its loop; the entry is recorded (the count of the key goes up by one
\* and a watcher is spawned for it, already closed, the call returning no
\* token) and the exit is recorded (the key is removed); afterwards each
\* key's refcount equals the number of watchers of that key not yet reaped,
\* and it equals the number of open tokens of the key whenever no closed
\* watcher is waiting to be reaped.
C25_FailedWriteRecorded ==
    /\ [](FailedWrite(last) => running)
    /\ [][(EntryStep /\ FailedWrite(last')) =>
            /\ Count(download_handles', last'.identifier) =
                 Count(download_handles, last'.identifier) + 1
            /\ last'.result = "err"
            /\ \E w \in WatcherIds :
                 /\ wstate[w] = "none"
                 /\ wstate'[w] = "closed"
                 /\ wkey'[w] = last'.identifier]_vars
    /\ [][(ReleaseStep /\ FailedWrite(last')) =>
            /\ last'.identifier \in DOMAIN download_handles
            /\ last'.identifier \notin DOMAIN download_handles']_vars
    /\ [](\A k \in Identifiers :
            Count(download_handles, k) = Cardinality(Unreleased(k)))
    /\ []((\A w \in WatcherIds : wstate[w] \notin {"closed", "finished"}) =>
            \A k \in Identifiers :
              Count(download_handles, k) = Cardinality(OpenTokens(k)))

\* the write of the override failed while "a" was entered: the call returned
\* no token, "a" is counted once and its watcher waits to be reaped
C25_Witness ==
    /\ FailedWrite(last)
    /\ last.op = "EnterDownloadMode"
    /\ running
    /\ Count(download_handles, "a") = 1
    /\ OpenTokens("a") = {}
    /\ Cardinality(Unreleased("a")) = 1

\* ---------------------------------------------------------------------
\* the race: SetTdpLimit is the oldest command of the channel while the
\* watcher w of the only lease left has seen its token closed
RaceState(w) ==
    /\ running
    /\ channel # <<>>
    /\ Head(channel).cmd = "SetTdpLimit"
    /\ wstate[w] = "finished"
    /\ DOMAIN download_handles = {wkey[w]}
    /\ download_handles[wkey[w]] = 1

\* run() takes the oldest command of the channel
ReceiveStep ==
    /\ channel # <<>>
    /\ channel' = Tail(channel)
    /\ last'.op = Head(channel).cmd
    /\ last'.op = "SetTdpLimit" => last'.limit = Head(channel).limit
    /\ last'.op = "EnterDownloadMode" =>
         last'.identifier = Head(channel).identifier

\* a command is submitted: it goes behind the commands already waiting
SubmitStep ==
    /\ Len(channel') = Len(channel) + 1
    /\ SubSeq(channel', 1, Len(channel)) = channel

\* C27: when the last token is closed while a SetLimit(v) waits, run() can
\* take either first. SetLimit taken first is discarded (nothing is written
\* and the lease stays), and the expiry that follows, the driver being
\* active and its I/O succeeding, writes the cached previous value back.
\* The expiry taken first empties the table, and a SetLimit(v) handled on an
\* empty table without error leaves the driver at v. The channel changes
\* only by a submission at its tail or by run() taking its oldest command.
C27_ExpiryRace ==
    /\ [](\A w \in WatcherIds :
            RaceState(w) => (ENABLED RecvSetTdpLimit) /\ (ENABLED RunJoinNext(w)))
    /\ [][((\E w \in WatcherIds : RaceState(w)) /\ channel' = Tail(channel)) =>
            /\ last'.op = "SetTdpLimit"
            /\ last'.issued = <<>>
            /\ reg' = reg
            /\ download_handles' = download_handles
            /\ wstate' = wstate]_vars
    /\ [][(/\ ReleaseStep
           /\ ~IsEmpty(download_handles)
           /\ IsEmpty(download_handles')
           /\ previous_limit # NoLimit
           /\ Active
           /\ Tdp # 0
           /\ last'.err = "none") =>
            /\ last'.issued = <<previous_limit>>
            /\ Tdp' = previous_limit
            /\ previous_limit' = NoLimit]_vars
    /\ [][(/\ channel # <<>>
           /\ channel' = Tail(channel)
           /\ Head(channel).cmd = "SetTdpLimit"
           /\ IsEmpty(download_handles)
           /\ last'.err = "none") =>
            /\ last'.issued = <<Head(channel).limit>>
            /\ Tdp' = Head(channel).limit]_vars
    /\ [][channel' # channel => (SubmitStep \/ ReceiveStep)]_vars

\* the race with a second command waiting behind SetLimit(v), the driver
\* active at the override and v differing from the cached previous value
C27_Witness ==
    \E w \in WatcherIds :
      /\ RaceState(w)
      /\ Active
      /\ previous_limit # NoLimit
      /\ Tdp = download_mode_limit
      /\ Head(channel).limit # previous_limit
      /\ Len(channel) = 2
      /\ channel[2].cmd = "ListDownloadModeHandles"

\* ---------------------------------------------------------------------
\* C28: while the driver is inactive, an EnterLease that gets its pipe (and
\* whose is_active() call does not itself fail) counts its key once more and
\* returns a token, and a release lowers the count of its key by one; neither
\* issues a write, changes the driver's registers or touches the cached
\* previous limit.
C28_InactiveNoWrite ==
    /\ [][(/\ EntryStep
           /\ ~Active
           /\ download_mode_limit # NoLimit
           /\ last'.err \notin {"io", "pipe"}) =>
            /\ last'.err = "none"
            /\ last'.result \in {"token", "undelivered"}
            /\ Count(download_handles', last'.identifier) =
                 Count(download_handles, last'.identifier) + 1
            /\ last'.issued = <<>>
            /\ reg' = reg
            /\ previous_limit' = previous_limit]_vars
    /\ [][(/\ ReleaseStep
           /\ ~Active
           /\ last'.err # "io") =>
            /\ last'.err = "none"
            /\ Count(download_handles', last'.identifier) =
                 Count(download_handles, last'.identifier) - 1
            /\ last'.issued = <<>>
            /\ reg' = reg
            /\ previous_limit' = previous_limit]_vars

\* the first lease has just been entered while the driver was inactive: the
\* caller got a token, the key is counted, nothing is cached and the driver
\* still holds the value it had, which is not the override
C28_Witness ==
    /\ ~Active
    /\ download_mode_limit # NoLimit
    /\ last.op = "EnterDownloadMode"
    /\ last.result = "token"
    /\ last.issued = <<>>
    /\ Count(download_handles, "a") = 1
    /\ previous_limit = NoLimit
    /\ Tdp = idleValue
    /\ Tdp # download_mode_limit

\* ---------------------------------------------------------------------
\* the outcomes the worker delivers
WrittenOutcomes == {<<"WrittenOk">>, <<"WrittenErr">>}

\* the worker removes the pending entry of some path
RemoveStep ==
    \E path \in Paths : values[path] # 0 /\ values'[path] = 0

\* C30: the worker holds an entry exactly from its removal to the delivery
\* of its outcome; it removes an entry only while it holds none, every
\* write made so far having been answered; a write is made for the entry
\* held and for no other; Written is delivered to the entry held, after its
\* write, and releases the worker; at no time is more than one request
\* written and not yet answered.
C30_OneWriteAtATime ==
    /\ [](taken # 0 <=> worker \in {"write", "writtenOk", "writtenErr"})
    /\ [][RemoveStep =>
            /\ taken = 0
            /\ taken' # 0
            /\ worker' = "write"
            /\ \A r \in Sent :
                 requests[r].written => requests[r].outcomes \in WrittenOutcomes]_vars
    /\ [][\A r \in Sent :
            requests'[r].written # requests[r].written =>
              /\ r = taken
              /\ worker = "write"
              /\ taken' = taken
              /\ requests'[r].outcomes = <<>>]_vars
    /\ [][\A r \in Sent :
            (requests[r].outcomes = <<>> /\ requests'[r].outcomes \in WrittenOutcomes) =>
              /\ r = taken
              /\ requests[r].written
              /\ worker \in {"writtenOk", "writtenErr"}
              /\ requests'[r].outcomes = <<IF worker = "writtenOk"
                                            THEN "WrittenOk" ELSE "WrittenErr">>
              /\ taken' = 0]_vars
    /\ [](Cardinality({r \in Sent : /\ requests[r].written
                                    /\ requests[r].outcomes = <<>>}) <= 1)
    /\ [][file' # file => (worker = "write" /\ taken # 0)]_vars

\* the second write is done and not yet answered, the first having been
\* answered, while a third entry waits in the map: the worker has not
\* removed it
C30_Witness ==
    /\ worker \in {"writtenOk", "writtenErr"}
    /\ requests[taken].written
    /\ requests[taken].outcomes = <<>>
    /\ \E r \in Sent : r # taken /\ requests[r].outcomes \in WrittenOutcomes
    /\ \E path \in Paths : values[path] \notin {0, taken}

\* ---------------------------------------------------------------------
\* the ways the event loop ends through `break`
LoopEnds ==
    {"task", "SIGINT", "SIGTERM", "SIGQUIT", "reload", "ReadConfig",
     "command", "closed"}

InitServer ==
    /\ \E cfg \in DeviceConfigs, m \in Methods :
         /\ cfg = "no_firmware_attribute" => m = "FirmwareAttribute"
         /\ UserDaemonNew(cfg)
         /\ TdpManagerServiceNew(m, IF cfg = "download_mode_limit"
                                    THEN DownloadModeLimit ELSE NoLimit)
    /\ capacity = MaxQueue
    /\ SysfsWriterQueueNew
    /\ DaemonNew(1)
    /\ DriverIdle

FreeTasks == {t \in UpdateTaskIds : update_tasks[t].pc = "absent"}

Spawn(tasks, kind) ==
    [tasks EXCEPT ![Min(FreeTasks)] =
       [pc |-> "spawned", kind |-> kind, reply |-> "none"]]

\* daemon() up to daemon.run: create_connections (TdpManagerService::new,
\* tdp_tx, create_interfaces), `bail!` if it failed, then add_service
UserDaemon(proxy, perf, battery) ==
    /\ stage = "start"
    /\ LET result == TdpManagerServiceResult(device_config, proxy)
           tx == TdpTx(result)
           d == CreateDeviceInterfaces(device_config, tx, perf)
       IN
       /\ tdp_service' = result
       /\ tdp_tx' = tx
       /\ IF d.ok
          THEN /\ stage' = "running"
               /\ object_server' =
                    [name \in ObjectInterfaces |->
                       IF \/ name \in d.interfaces
                          \/ name = "BatteryChargeLimit1" /\ battery
                       THEN "local" ELSE "none"]
               /\ added' = DaemonServices(result)
               /\ update_tasks' = IF d.spawn THEN Spawn(update_tasks, "startup")
                                  ELSE update_tasks
          ELSE /\ stage' = "failed"
               /\ UNCHANGED <<object_server, added, update_tasks>>
    /\ UNCHANGED <<device_config, remotes, dbus_reply>>
    /\ UNCHANGED <<arbiterVars, coalescerVars, supervisorVars, driverVars,
                   sessionVars>>

\* PerformanceProfile1::set_performance_profile: the root manager changes
\* the platform profile; with a sender, UpdateDownloadMode is sent and the
\* task that asks IsActive is spawned
PerformanceProfileSet ==
    /\ stage = "running"
    /\ object_server["PerformanceProfile1"] = "local"
    /\ profileMatches' = IF method = "FirmwareAttribute"
                         THEN ~profileMatches ELSE profileMatches
    /\ disturbed' = (disturbed \/ ~IsActive(method, profileMatches'))
    /\ IF tdp_tx
       THEN /\ FreeTasks # {}
            /\ Len(channel) < capacity
            /\ channel' = Append(channel, Command("UpdateDownloadMode", 0, ""))
            /\ update_tasks' = Spawn(update_tasks, "update")
       ELSE UNCHANGED <<channel, update_tasks>>
    /\ last' = NoStep
    /\ UNCHANGED <<download_handles, previous_limit, configVars, runVars,
                   watcherVars, reg, idleValue, refBalance, tokBalance>>
    /\ UNCHANGED <<device_config, stage, tdp_service, tdp_tx, object_server,
                   remotes, added, dbus_reply>>
    /\ UNCHANGED <<coalescerVars, supervisorVars, driverVars, sessionVars>>

\* the spawned task: manager.send(TdpManagerCommand::IsActive(tx))?
UpdateTaskSend(t) ==
    /\ update_tasks[t].pc = "spawned"
    /\ IF running
       THEN /\ Len(channel) < capacity
            /\ channel' = Append(channel, Command("IsActive", t, ""))
            /\ update_tasks' = [update_tasks EXCEPT ![t].pc = "waiting"]
       ELSE /\ channel' = channel
            /\ update_tasks' = [update_tasks EXCEPT ![t].pc = "failed"]
    /\ last' = NoStep
    /\ UNCHANGED <<download_handles, previous_limit, configVars, runVars,
                   watcherVars, profileMatches, reg, historyVars>>
    /\ UNCHANGED <<device_config, stage, tdp_service, tdp_tx, object_server,
                   remotes, added, dbus_reply>>
    /\ UNCHANGED <<coalescerVars, supervisorVars, driverVars, sessionVars>>

\* run() receives IsActive(reply): reply.send(self.manager.is_active().await)
RecvIsActive ==
    /\ running
    /\ channel # <<>>
    /\ Recv(channel).message.cmd = "IsActive"
    /\ \E io \in {"ok", "fail"} :
         LET t == Recv(channel).message.limit
             answer == IF method = "FirmwareAttribute" /\ io = "fail" THEN "err"
                       ELSE IF IsActive(method, profileMatches) THEN "true"
                       ELSE "false"
         IN
         /\ update_tasks' = [update_tasks EXCEPT ![t].pc = "replied",
                                                 ![t].reply = answer]
         /\ last' = [NoStep EXCEPT !.op = "IsActive", !.limit = t]
    /\ running' = AfterCommand("none")
    /\ channel' = Recv(channel).rest
    /\ UNCHANGED <<download_handles, previous_limit, configVars, senders,
                   watcherVars, profileMatches, reg, historyVars>>
    /\ UNCHANGED <<device_config, stage, tdp_service, tdp_tx, object_server,
                   remotes, added, dbus_reply>>
    /\ UNCHANGED <<coalescerVars, supervisorVars, driverVars, sessionVars>>

\* the spawned task after `rx.await??`: object_server.at or remove
UpdateTaskApply(t) ==
    /\ update_tasks[t].pc = "replied"
    /\ object_server' = ApplyIsActive(object_server, update_tasks[t].kind,
                                      update_tasks[t].reply)
    /\ update_tasks' = [update_tasks EXCEPT
                          ![t].pc = IF update_tasks[t].reply = "err"
                                    THEN "failed" ELSE "done"]
    /\ UNCHANGED <<device_config, stage, tdp_service, tdp_tx, remotes, added,
                   dbus_reply>>
    /\ UNCHANGED <<arbiterVars, coalescerVars, supervisorVars, driverVars,
                   sessionVars>>

\* RemoteInterface1::register_interface called by a peer
CallRegisterInterface(name, sender, io) ==
    /\ stage = "running"
    /\ LET r == RegisterInterface(remotes, object_server, name, sender, io) IN
       /\ remotes' = r.remotes
       /\ object_server' = r.object_server
       /\ dbus_reply' = [op |-> "RegisterInterface", iface |-> name,
                         sender |-> sender, result |-> r.result,
                         n |-> 1 - dbus_reply.n]
    /\ UNCHANGED <<device_config, stage, tdp_service, tdp_tx, added,
                   update_tasks>>
    /\ UNCHANGED <<arbiterVars, coalescerVars, supervisorVars, driverVars,
                   sessionVars>>

\* RemoteInterface1::unregister_interface called by a peer
CallUnregisterInterface(name, sender) ==
    /\ stage = "running"
    /\ LET r == UnregisterInterface(remotes, object_server, name, sender) IN
       /\ remotes' = r.remotes
       /\ object_server' = r.object_server
       /\ dbus_reply' = [op |-> "UnregisterInterface", iface |-> name,
                         sender |-> sender, result |-> r.result,
                         n |-> 1 - dbus_reply.n]
    /\ UNCHANGED <<device_config, stage, tdp_service, tdp_tx, added,
                   update_tasks>>
    /\ UNCHANGED <<arbiterVars, coalescerVars, supervisorVars, driverVars,
                   sessionVars>>

\* the start of the user daemon and the export of TdpLimit1
NextServer ==
    \/ \E proxy \in {"ok", "fail"}, perf \in BOOLEAN :
         UserDaemon(proxy, perf, FALSE)
    \/ PerformanceProfileSet
    \/ \E t \in UpdateTaskIds : UpdateTaskSend(t)
    \/ RecvIsActive
    \/ RecvUpdateDownloadMode
    \/ \E t \in UpdateTaskIds : UpdateTaskApply(t)

SpecServer ==
    InitServer /\ [][NextServer]_vars

\* RemoteInterface1 on a running user daemon
NextRegistry ==
    \/ \E proxy \in {"ok", "fail"}, perf \in BOOLEAN, battery \in BOOLEAN :
         UserDaemon(proxy, perf, battery)
    \/ \E name \in RequestedInterfaces, sender \in Peers, io \in {"ok", "fail"} :
         CallRegisterInterface(name, sender, io)
    \/ \E name \in RequestedInterfaces, sender \in Peers :
         CallUnregisterInterface(name, sender)

SpecRegistry ==
    InitServer /\ [][NextRegistry]_vars

(***************************************************************************)
(* C23: a registered remote interface can be unregistered only by the peer *)
(* that registered it.  UnregisterInterface from a different sender fails  *)
(* with an error and leaves the interface registered and listed;           *)
(* UnregisterInterface from the owner returns true and removes it;         *)
(* RegisterInterface of an interface that is already registered or         *)
(* provided by the daemon returns false and replaces nothing.  The last    *)
(* conjunct is the listing: RemoteInterfaces names exactly the interfaces  *)
(* whose remote is in the object server.                                   *)
(***************************************************************************)
Called(op) ==
    /\ dbus_reply'.n # dbus_reply.n
    /\ dbus_reply'.op = op

RegistryUnchanged ==
    /\ remotes' = remotes
    /\ object_server' = object_server

RemoteInterfaces == {name \in RegistryInterfaces : remotes[name] # "none"}

C23_OwnerOnly ==
    [][/\ \A name \in RegistryInterfaces :
         (
           /\ ( /\ Called("UnregisterInterface")
                /\ dbus_reply'.iface = name
                /\ remotes[name] \notin {"none", dbus_reply'.sender} )
              => /\ dbus_reply'.result = "AccessDenied"
                 /\ RegistryUnchanged
                 /\ name \in RemoteInterfaces'
           /\ ( /\ Called("UnregisterInterface")
                /\ dbus_reply'.iface = name
                /\ remotes[name] = dbus_reply'.sender )
              => /\ dbus_reply'.result = "true"
                 /\ remotes' = [remotes EXCEPT ![name] = "none"]
                 /\ object_server' = [object_server EXCEPT ![name] = "none"]
           /\ ( /\ Called("RegisterInterface")
                /\ dbus_reply'.iface = name
                /\ (remotes[name] # "none" \/ object_server[name] # "none") )
              => /\ dbus_reply'.result = "false"
                 /\ RegistryUnchanged
         )
      /\ \A listed \in RegistryInterfaces :
           /\ listed \in RemoteInterfaces' <=> object_server'[listed] \in Peers
           /\ listed \in RemoteInterfaces'
                => object_server'[listed] = remotes'[listed]
     ]_vars

\* a peer was refused the removal of an interface that another peer holds
C23_Witness ==
    /\ dbus_reply.op = "UnregisterInterface"
    /\ dbus_reply.result = "AccessDenied"
    /\ dbus_reply.iface = "BatteryChargeLimit1"
    /\ remotes["BatteryChargeLimit1"] \in Peers \ {dbus_reply.sender}
    /\ object_server["BatteryChargeLimit1"] = remotes["BatteryChargeLimit1"]

(***************************************************************************)
(* C22: when the arbiter cannot be constructed the user daemon still       *)
(* starts and runs its other services, no arbiter task is registered and   *)
(* neither TdpLimit1 nor LowPowerMode1 is exported; LowPowerMode1 is       *)
(* exported only when an override value is configured.                     *)
(***************************************************************************)
C22_NotFatal ==
    /\ (stage # "start" /\ tdp_service = "Err")
         => /\ stage = "running"
            /\ {"signal-relay", "job-manager"} \subseteq added
            /\ "tdp-manager" \notin added
            /\ object_server["TdpLimit1"] = "none"
            /\ object_server["LowPowerMode1"] = "none"
    /\ object_server["LowPowerMode1"] # "none"
         => device_config = "download_mode_limit"

(***************************************************************************)
(* C21: TdpLimit1 is exported exactly when the arbiter reports the driver  *)
(* active.  It is present after startup iff the IsActive reply was true,   *)
(* and after any sequence of performance-profile changes, once all spawned *)
(* update tasks have finished (none of them with an error), it is present  *)
(* iff the driver is active under the last profile set.                    *)
(***************************************************************************)
StartupTask == {t \in UpdateTaskIds : update_tasks[t].kind = "startup"}

UpdateTasks == {t \in UpdateTaskIds : update_tasks[t].kind = "update"}

C21_ExportedIffActive ==
    /\ \A t \in StartupTask :
         (update_tasks[t].pc = "done" /\ UpdateTasks = {})
           => (object_server["TdpLimit1"] = "local"
                 <=> update_tasks[t].reply = "true")
    /\ ( /\ stage = "running"
         /\ tdp_tx
         /\ UpdateTasks # {}
         /\ \A t \in StartupTask \cup UpdateTasks : update_tasks[t].pc = "done" )
        => (object_server["TdpLimit1"] = "local"
              <=> IsActive(method, profileMatches))

(***************************************************************************)
(* C34: the supervisor never blocks forever on its own inbound channel.    *)
(* Whenever handle_command has come to its send of WriteState on the       *)
(* bounded channel that only the event loop receives from, the channel has *)
(* room for it, however many commands other senders have queued: the send  *)
(* completes and the loop goes on to receive.                              *)
(***************************************************************************)
C34_SendCompletes ==
    daemon = "sending" => Len(daemonChannel) < MaxMessages

(***************************************************************************)
(* C35: the event loop never aborts because no task is left: with every    *)
(* supervised task and the ready task completed and joined, run() keeps    *)
(* waiting for signals and commands.                                       *)
(***************************************************************************)
C35_EmptySetWaits ==
    [][(daemon = "loop" /\ InJoinSet = {}) => daemon' # "panicked"]_vars

(***************************************************************************)
(* C37: no signal is lost while the supervisor is busy: a signal delivered *)
(* while the event loop is handling another event (here a command, whose   *)
(* handler is at its send) is still there to be acted upon when the loop   *)
(* goes round.                                                             *)
(***************************************************************************)
C37_SignalKept ==
    [][(daemon = "sending" /\ daemon' = "loop") => signals \subseteq signals']_vars

(***************************************************************************)
(* C32: shutdown attempts no compensating restoration.  The cancellation   *)
(* of the arbiter writes nothing to the driver and leaves the cached       *)
(* previous limit and the lease table as they are, and once run() has      *)
(* ended no step changes any of them: with leases held the driver is left  *)
(* at the override.                                                        *)
(***************************************************************************)
C32_NoRestoration ==
    [][(~running') =>
         /\ reg' = reg
         /\ previous_limit' = previous_limit
         /\ download_handles' = download_handles]_vars

\* the arbiter has just been cancelled with a lease held: the driver holds
\* the override, the previous limit is still cached
C32_Witness ==
    /\ ~running
    /\ last.op = "Cancelled"
    /\ ~IsEmpty(download_handles)
    /\ \E w \in WatcherIds : wstate[w] = "open"
    /\ Tdp = download_mode_limit
    /\ previous_limit \notin {NoLimit, download_mode_limit}

(***************************************************************************)
(* C36: refcount invariant.  Every key present in the lease table has a    *)
(* count of at least 1; after every step of the arbiter the sum of all     *)
(* counts is the number of watchers spawned and not yet reaped; and the    *)
(* join_next branch, given the identifier of a key absent from the table,  *)
(* changes neither the table nor the cached limit nor the driver (checked  *)
(* for every table over the identifiers, the run never bringing such a     *)
(* completion about).                                                      *)
(***************************************************************************)
Total(h) ==
    Cardinality({p \in (DOMAIN h) \X (1..MaxWatchers + 1) : p[2] <= h[p[1]]})

Unreaped ==
    {w \in WatcherIds : wstate[w] \in {"open", "closed", "finished"}}

LeaseTables ==
    UNION {[S -> 1..MaxWatchers] : S \in SUBSET Identifiers}

C36_RefcountInvariant ==
    /\ \A k \in DOMAIN download_handles : download_handles[k] >= 1
    /\ Total(download_handles) = Cardinality(Unreaped)
    /\ \A h \in LeaseTables, k \in Identifiers, io \in IoOutcomes :
         k \notin DOMAIN h =>
           LET r == JoinNext(h, previous_limit, download_mode_limit, method,
                             profileMatches, reg, k, io)
           IN /\ r.handles = h
              /\ r.previous_limit = previous_limit
              /\ r.reg = reg
              /\ r.issued = <<>>

\* two references of "a" are counted, one token open and one closed but
\* not yet reaped
C36_Witness ==
    /\ DOMAIN download_handles = {"a"}
    /\ download_handles["a"] = 2
    /\ \E w \in WatcherIds : wstate[w] = "open" /\ wkey[w] = "a"
    /\ \E w \in WatcherIds : wstate[w] = "closed" /\ wkey[w] = "a"

(***************************************************************************)
(* C39: nested leases leave the arbitration state alone.  An EnterLease    *)
(* processed while the lease table is already non-empty, and an            *)
(* UpdateDownloadMode processed while leases are held and the driver       *)
(* already holds the override, do not change the cached previous limit and *)
(* issue no driver write; a release that leaves other leases in the table  *)
(* issues no driver write either.                                          *)
(***************************************************************************)
UpdateStep ==
    /\ channel # <<>>
    /\ Head(channel).cmd = "UpdateDownloadMode"
    /\ channel' = Tail(channel)

\* C39, as stated
C39_NestedLeavesAlone ==
    [][/\ (EntryStep /\ ~IsEmpty(download_handles)) =>
            /\ previous_limit' = previous_limit
            /\ last'.issued = <<>>
       /\ (UpdateStep /\ ~IsEmpty(download_handles)
                      /\ Tdp = download_mode_limit) =>
            /\ previous_limit' = previous_limit
            /\ last'.issued = <<>>
       /\ (ReleaseStep /\ ~IsEmpty(download_handles')) =>
            /\ last'.issued = <<>>
            /\ reg' = reg]_vars

\* the arbitration is settled: a previous limit is cached and the driver
\* holds the override
Settled ==
    /\ previous_limit # NoLimit
    /\ Tdp = download_mode_limit

\* C39, amended: with leases held, a previous limit cached and the driver
\* holding the override, an EnterLease and an UpdateDownloadMode change
\* neither the cache nor the driver and issue no write.  With leases held
\* a cached previous limit is never replaced, and the only write such a
\* step may issue is the override, when the driver does not hold it; when
\* nothing is cached the current limit is cached.  A release that leaves
\* other leases in the table issues no write and changes neither the
\* driver nor the cache.
C39_NestedSettled ==
    [][/\ ((EntryStep \/ UpdateStep) /\ ~IsEmpty(download_handles)) =>
            /\ Settled =>
                 /\ previous_limit' = previous_limit
                 /\ reg' = reg
                 /\ last'.issued = <<>>
            /\ previous_limit # NoLimit => previous_limit' = previous_limit
            /\ last'.issued \in {<<>>, <<download_mode_limit>>}
            /\ last'.issued # <<>> => Tdp # download_mode_limit
            /\ (previous_limit = NoLimit /\ previous_limit' # NoLimit) =>
                 previous_limit' = Tdp
       /\ (ReleaseStep /\ ~IsEmpty(download_handles')) =>
            /\ last'.issued = <<>>
            /\ reg' = reg
            /\ previous_limit' = previous_limit]_vars

\* a second lease of "a" has just been entered while the first was held:
\* the caller got a token, nothing was written, the driver holds the
\* override and the limit cached by the first entry is still there
C39_Witness ==
    /\ last.op = "EnterDownloadMode"
    /\ last.arbitrated
    /\ last.result = "token"
    /\ last.issued = <<>>
    /\ download_handles = [k \in {"a"} |-> 2]
    /\ \A w \in WatcherIds : wstate[w] = "open"
    /\ previous_limit = 15
    /\ Tdp = download_mode_limit

(***************************************************************************)
(* C38: override before token.  When EnterLease returns a liveness token   *)
(* and the driver is active, the driver holds the override and the lease   *)
(* is counted in the table when the reply is delivered; when the entry     *)
(* processing fails the caller gets an error and no token.                 *)
(***************************************************************************)
C38_OverrideBeforeToken ==
    [][EntryStep =>
         /\ (last'.result = "token" /\ Active) =>
              /\ FromRaw(method, reg') = download_mode_limit
              /\ Count(download_handles', last'.identifier) >= 1
         /\ last'.err \notin {"none", "zero"} => last'.result = "err"]_vars

\* C38, amended: when EnterLease returns a liveness token, the driver is
\* active and its limit does not read 0, the driver holds the override and
\* the lease is counted when the reply is delivered; when the limit reads
\* 0 the token is returned and the lease counted with nothing written; when
\* the entry processing fails the caller gets an error and no token.
C38_OverrideUnlessZero ==
    [][EntryStep =>
         /\ (last'.result = "token" /\ Active /\ Tdp # 0) =>
              /\ FromRaw(method, reg') = download_mode_limit
              /\ Count(download_handles', last'.identifier) >= 1
         /\ (last'.result = "token" /\ Active /\ Tdp = 0) =>
              /\ last'.issued = <<>>
              /\ reg' = reg
              /\ Count(download_handles', last'.identifier) >= 1
         /\ last'.err \notin {"none", "zero"} => last'.result = "err"]_vars

\* the first EnterLease has just returned its token on an active driver:
\* the override was written over the limit 15, which is cached, and the
\* lease is counted
C38_Witness ==
    /\ last.op = "EnterDownloadMode"
    /\ last.result = "token"
    /\ last.issued = <<download_mode_limit>>
    /\ last.err = "none"
    /\ Active
    /\ Tdp = download_mode_limit
    /\ previous_limit = 15
    /\ Count(download_handles, last.identifier) = 1

(***************************************************************************)
(* C31: a failed write and the requests after it                           *)
(***************************************************************************)
\* C31: a failed write is reported as Written(Err) to the receiver of that
\* request only, the worker does not stop, and the requests pending or sent
\* afterwards are still written and reported: when a write has failed,
\* every send has returned and the worker waits in notified() (no step of
\* the coalescer is possible until some later send), no receiver is left
\* without an outcome.
C31_FailureDoesNotBlock ==
    (/\ \E r \in Sent : requests[r].outcomes = <<"WrittenErr">>
     /\ worker = "waiting"
     /\ \A r \in Sent : requests[r].returned) =>
      \A r \in Sent : requests[r].outcomes # <<>>

(***************************************************************************)
(* SessionManager and UserContext::handle_command: state machine           *)
(***************************************************************************)
InitSession ==
    /\ \E state \in SessionManagerStates : UserContextNew("none", state)
    /\ TdpManagerServiceNew("AmdgpuHwmon", NoLimit)
    /\ capacity = MaxChannel
    /\ SysfsWriterQueueNew
    /\ DaemonNew(1)
    /\ DriverIdle

\* is_valid_desktop_session_name, on the names callers pass: a name that
\* contains "gamescope" is refused
IsValidDesktopSessionName(session) ==
    session # GameSession

GetSessionManagerState(c) ==
    [cmd |-> "Get", call |-> c, state |-> SessionManagerStateDefault]

SetSessionManagerState(c, state) ==
    [cmd |-> "Set", call |-> c, state |-> state]

WriteStateCommand ==
    [cmd |-> "WriteState", call |-> 0, state |-> SessionManagerStateDefault]

\* set_default_desktop_session(session) up to the await in get_state; exists
\* is what try_exists finds for the session file
SetDefaultDesktopSession(c, session, exists) ==
    /\ calls[c].pc = "idle"
    /\ Len(user_channel) < UserChannelCapacity
    /\ IF IsValidDesktopSessionName(session) /\ exists
       THEN /\ user_channel' = Append(user_channel, GetSessionManagerState(c))
            /\ calls' = [calls EXCEPT ![c].op = "set_default_desktop_session",
                                      ![c].arg = session,
                                      ![c].pc = "get_state"]
       ELSE /\ calls' = [calls EXCEPT ![c].op = "set_default_desktop_session",
                                      ![c].arg = session,
                                      ![c].pc = "done",
                                      ![c].result = "err"]
            /\ UNCHANGED user_channel
    /\ UNCHANGED <<session_manager, state_file, default_session>>
    /\ UNCHANGED <<device_config, stage, tdp_service, tdp_tx, object_server,
                   remotes, added, update_tasks, dbus_reply>>
    /\ UNCHANGED <<arbiterVars, coalescerVars, supervisorVars, driverVars>>

\* set_default_login_mode(mode) up to the await in get_state
SetDefaultLoginMode(c, mode) ==
    /\ calls[c].pc = "idle"
    /\ Len(user_channel) < UserChannelCapacity
    /\ user_channel' = Append(user_channel, GetSessionManagerState(c))
    /\ calls' = [calls EXCEPT ![c].op = "set_default_login_mode",
                              ![c].arg = mode,
                              ![c].pc = "get_state"]
    /\ UNCHANGED <<session_manager, state_file, default_session>>
    /\ UNCHANGED <<device_config, stage, tdp_service, tdp_tx, object_server,
                   remotes, added, update_tasks, dbus_reply>>
    /\ UNCHANGED <<arbiterVars, coalescerVars, supervisorVars, driverVars>>

\* the setter resumes with the state get_state returned and changes its
\* field of the copy. set_default_desktop_session writes the copy back
\* unless the login mode of the copy is Desktop (set_default_session is
\* called first); set_default_login_mode goes on to session_for_mode, which
\* for Desktop calls get_state again
GetStateReturn(c) ==
    /\ calls[c].pc = "get_state"
    /\ calls[c].replied
    /\ Len(user_channel) < UserChannelCapacity
    /\ IF calls[c].op = "set_default_desktop_session"
       THEN LET state == [calls[c].reply EXCEPT !.desktop_session = calls[c].arg]
            IN
            IF state.default_login_mode = "Desktop"
            THEN /\ calls' = [calls EXCEPT ![c].state = state,
                                           ![c].session = calls[c].arg,
                                           ![c].pc = "set_default_session"]
                 /\ UNCHANGED user_channel
            ELSE /\ calls' = [calls EXCEPT ![c].state = state,
                                           ![c].pc = "done",
                                           ![c].result = "ok"]
                 /\ user_channel' =
                      Append(user_channel, SetSessionManagerState(c, state))
       ELSE LET state == [calls[c].reply EXCEPT !.default_login_mode = calls[c].arg]
            IN
            IF calls[c].arg = "Game"
            THEN /\ calls' = [calls EXCEPT ![c].state = state,
                                           ![c].session = GameSession,
                                           ![c].pc = "set_default_session"]
                 /\ UNCHANGED user_channel
            ELSE /\ calls' = [calls EXCEPT ![c].state = state,
                                           ![c].replied = FALSE,
                                           ![c].pc = "session_for_mode"]
                 /\ user_channel' =
                      Append(user_channel, GetSessionManagerState(c))
    /\ UNCHANGED <<session_manager, state_file, default_session>>
    /\ UNCHANGED <<device_config, stage, tdp_service, tdp_tx, object_server,
                   remotes, added, update_tasks, dbus_reply>>
    /\ UNCHANGED <<arbiterVars, coalescerVars, supervisorVars, driverVars>>

\* session_for_mode(Desktop): default_desktop_session resumes with the state
\* of its own get_state, desktop_session.unwrap_or_default()
SessionForMode(c) ==
    /\ calls[c].pc = "session_for_mode"
    /\ calls[c].replied
    /\ calls' = [calls EXCEPT
                   ![c].session = IF calls[c].reply.desktop_session = NoSession
                                  THEN DesktopSessionDefault
                                  ELSE calls[c].reply.desktop_session,
                   ![c].pc = "set_default_session"]
    /\ UNCHANGED <<session_manager, state_file, default_session, user_channel>>
    /\ UNCHANGED <<device_config, stage, tdp_service, tdp_tx, object_server,
                   remotes, added, update_tasks, dbus_reply>>
    /\ UNCHANGED <<arbiterVars, coalescerVars, supervisorVars, driverVars>>

\* self.manager.set_default_session(session).await? and, when it succeeded,
\* write_state(state) and the return of Ok
SetDefaultSession(c, io) ==
    /\ calls[c].pc = "set_default_session"
    /\ Len(user_channel) < UserChannelCapacity
    /\ IF io = "ok"
       THEN /\ default_session' = calls[c].session
            /\ user_channel' =
                 Append(user_channel, SetSessionManagerState(c, calls[c].state))
            /\ calls' = [calls EXCEPT ![c].pc = "done", ![c].result = "ok"]
       ELSE /\ calls' = [calls EXCEPT ![c].pc = "done", ![c].result = "err"]
            /\ UNCHANGED <<default_session, user_channel>>
    /\ UNCHANGED <<session_manager, state_file>>
    /\ UNCHANGED <<device_config, stage, tdp_service, tdp_tx, object_server,
                   remotes, added, update_tasks, dbus_reply>>
    /\ UNCHANGED <<arbiterVars, coalescerVars, supervisorVars, driverVars>>

\* Daemon::run takes a command of the channel and handle_message runs:
\* UserContext::handle_command for the two context commands (Set stores the
\* state it carries and sends WriteState, Get answers with a clone of the
\* state), write_state for WriteState
UserHandleMessage ==
    /\ user_channel # <<>>
    /\ LET cmd == Head(user_channel) IN
       CASE cmd.cmd = "Set" ->
              /\ session_manager' = cmd.state
              /\ user_channel' = Append(Tail(user_channel), WriteStateCommand)
              /\ UNCHANGED <<state_file, calls>>
         [] cmd.cmd = "Get" ->
              /\ calls' = [calls EXCEPT ![cmd.call].reply = session_manager,
                                        ![cmd.call].replied = TRUE]
              /\ user_channel' = Tail(user_channel)
              /\ UNCHANGED <<session_manager, state_file>>
         [] OTHER ->
              /\ state_file' = session_manager
              /\ user_channel' = Tail(user_channel)
              /\ UNCHANGED <<session_manager, calls>>
    /\ UNCHANGED default_session
    /\ UNCHANGED <<device_config, stage, tdp_service, tdp_tx, object_server,
                   remotes, added, update_tasks, dbus_reply>>
    /\ UNCHANGED <<arbiterVars, coalescerVars, supervisorVars, driverVars>>

NextSession ==
    \/ \E c \in CallIds, session \in DesktopSessions \cup {GameSession},
          exists \in BOOLEAN : SetDefaultDesktopSession(c, session, exists)
    \/ \E c \in CallIds, mode \in LoginModes : SetDefaultLoginMode(c, mode)
    \/ \E c \in CallIds : GetStateReturn(c)
    \/ \E c \in CallIds : SessionForMode(c)
    \/ \E c \in CallIds, io \in {"ok", "fail"} : SetDefaultSession(c, io)
    \/ UserHandleMessage

SpecSession ==
    InitSession /\ [][NextSession]_vars

(***************************************************************************)
(* C40: concurrent updates of the session state                            *)
(***************************************************************************)
\* every command sent has been handled
SessionSettled ==
    user_channel = <<>>

\* C40: session-state updates are not lost under concurrency: when
\* set_default_login_mode(m) and set_default_desktop_session(s) have both
\* returned Ok and every command they sent has been handled, the session
\* state of the user context, and the state written by the last WriteState,
\* holds both m and s.
C40_NoLostUpdate ==
    \A c, d \in CallIds :
      (/\ calls[c].op = "set_default_login_mode"
       /\ calls[d].op = "set_default_desktop_session"
       /\ calls[c].result = "ok"
       /\ calls[d].result = "ok"
       /\ SessionSettled) =>
        /\ session_manager.default_login_mode = calls[c].arg
        /\ session_manager.desktop_session = calls[d].arg
        /\ state_file = session_manager

(***************************************************************************)
(* SYSFS_WRITER: SysfsWriterService::init and set_max_charge_level         *)
(***************************************************************************)
InitBinding ==
    /\ SysfsWriterQueueNew
    /\ TdpManagerServiceNew("AmdgpuHwmon", NoLimit)
    /\ capacity = MaxChannel
    /\ DaemonNew(1)
    /\ DriverIdle
    /\ ServerIdle

BindingUnchanged ==
    /\ UNCHANGED <<values, notify, worker, taken, file, requests>>
    /\ UNCHANGED <<arbiterVars, supervisorVars, driverVars, serverVars>>

\* SysfsWriterService::init, ensure!(!SYSFS_WRITER.initialized(), ..)
InitEnsure(i) ==
    /\ inits[i].pc = "idle"
    /\ inits' = [inits EXCEPT ![i] =
                   IF SYSFS_WRITER # 0
                   THEN [pc |-> "done", result |-> "already active"]
                   ELSE [pc |-> "set", result |-> "none"]]
    /\ UNCHANGED <<SYSFS_WRITER, queues, charge>>
    /\ BindingUnchanged

\* a variant of init whose set replaces the queue bound
InitSet_Rebind(i) ==
    /\ inits[i].pc = "set"
    /\ SYSFS_WRITER' = i
    /\ inits' = [inits EXCEPT ![i] = [pc |-> "done", result |-> "ok"]]
    /\ UNCHANGED <<queues, charge>>
    /\ BindingUnchanged

\* SysfsWriterService::init, SysfsWriterQueue::new() and
\* SYSFS_WRITER.set(queue.clone())?: the cell takes the queue of this call
\* if it is unset, otherwise set fails and init returns the error
InitSet(i) ==
    /\ inits[i].pc = "set"
    /\ IF SYSFS_WRITER = 0
       THEN /\ SYSFS_WRITER' = i
            /\ inits' = [inits EXCEPT ![i] = [pc |-> "done", result |-> "ok"]]
       ELSE /\ SYSFS_WRITER' = SYSFS_WRITER
            /\ inits' = [inits EXCEPT ![i] =
                           [pc |-> "done", result |-> "SetError"]]
    /\ UNCHANGED <<queues, charge>>
    /\ BindingUnchanged

\* set_max_charge_level(limit): the range check, the configuration and the
\* hwmon lookup (cfg), then SYSFS_WRITER.get().ok_or(..)?.send(..), which
\* replaces the contents pending for the attribute in the queue bound
SetMaxChargeLevel(limit, cfg) ==
    /\ IF limit \in 0..100 /\ cfg = "ok" /\ SYSFS_WRITER # 0
       THEN /\ queues' = [queues EXCEPT ![SYSFS_WRITER] = limit]
            /\ charge' = [limit |-> limit, result |-> "ok",
                          queue |-> SYSFS_WRITER]
       ELSE /\ queues' = queues
            /\ charge' = [limit |-> limit, result |-> "err", queue |-> 0]
    /\ UNCHANGED <<SYSFS_WRITER, inits>>
    /\ BindingUnchanged

NextBinding ==
    \/ \E i \in InitIds : InitEnsure(i)
    \/ \E i \in InitIds : InitSet(i)
    \/ \E limit \in ChargeLimits, cfg \in {"ok", "none"} :
         SetMaxChargeLevel(limit, cfg)

SpecBinding ==
    InitBinding /\ [][NextBinding]_vars

(***************************************************************************)
(* C33: one queue bound process-wide                                       *)
(***************************************************************************)
Constructed == {i \in InitIds : inits[i].result = "ok"}

\* C33: at most one coalescer is ever bound process-wide: at most one call
\* of init returns a service, and it is the one whose queue is bound; every
\* other call that has returned, also one that raced with it, returned an
\* error; a queue once bound stays bound; every send enqueues into the
\* queue bound, which is the queue of the only service; and a send made
\* while no queue is bound returns an error and enqueues nothing.
C33_SingleBinding ==
    /\ [](/\ Cardinality(Constructed) <= 1
          /\ Constructed = IF SYSFS_WRITER = 0 THEN {} ELSE {SYSFS_WRITER}
          /\ \A i \in InitIds :
               (inits[i].pc = "done" /\ i # SYSFS_WRITER) =>
                 inits[i].result \in {"already active", "SetError"}
          /\ \A q \in InitIds : queues[q] # NoCharge => q = SYSFS_WRITER
          /\ charge.result = "ok" => charge.queue \in Constructed)
    /\ [][/\ SYSFS_WRITER # 0 => SYSFS_WRITER' = SYSFS_WRITER
          /\ (SYSFS_WRITER = 0 /\ charge' # charge) =>
               /\ charge'.result = "err"
               /\ queues' = queues]_vars

\* the second call of init raced with the first and failed in set, the
\* third failed in ensure!, and set_max_charge_level(80) has enqueued into
\* the queue of the first
C33_Witness ==
    /\ SYSFS_WRITER = 1
    /\ inits[1].result = "ok"
    /\ inits[2].result = "SetError"
    /\ inits[3].result = "already active"
    /\ charge = [limit |-> 80, result |-> "ok", queue |-> 1]
    /\ queues[1] = 80

====
